---------------------------- MODULE Spec2Model ----------------------------
(***************************************************************************)
(* Type inference core of tinymist-query (analysis/ty.rs, analysis/ty/     *)
(* def.rs): the walker that fills a TypeCheckInfo (vars, mapping), the     *)
(* constraint poster, function application, signature extraction and the   *)
(* polarity-directed simplifier with its canonicalization cache.           *)
(***************************************************************************)
EXTENDS Integers, Sequences, FiniteSets

(***************************************************************************)
(* Bounds of the model.                                                    *)
(***************************************************************************)
MaxVars == 3       \* definition ids handed out by the def-use resolver
MaxStmts == 3      \* top-level statements of the walked source
NThreads == 2      \* query threads sharing one TypeCheckInfo
MaxConcStmts == 2  \* statements of the sources queried concurrently
MaxChildren == 3   \* children of a container node, children fed to a Joiner
MaxPaths == 2      \* files complete_path finds beside the document
LangCodes == 1000  \* entries of rust_iso639::ALL_MAP (the table lists several thousand)

SpanStride == 10   \* spans reserved for the nodes of one statement
Detached == 0      \* Span::detached()

Threads == 1..NThreads

(***************************************************************************)
(* FlowType (def.rs:29-58).  A type term is a record tagged by k.          *)
(***************************************************************************)
Clause == [k |-> "Clause"]
Undef == [k |-> "Undef"]
Content == [k |-> "Content"]
Any == [k |-> "Any"]
None == [k |-> "None"]
Infer == [k |-> "Infer"]
FlowNone == [k |-> "FlowNone"]
Auto == [k |-> "Auto"]
Boolean(b) == [k |-> "Boolean", b |-> b]
Builtin(b) == [k |-> "Builtin", b |-> b]
Value(v, s) == [k |-> "Value", v |-> v, span |-> s]
ValueDoc(v) == [k |-> "ValueDoc", v |-> v]
Element(e) == [k |-> "Element", e |-> e]
Var(id) == [k |-> "Var", id |-> id]
Func(pos, named, rest, ret) ==
    [k |-> "Func", pos |-> pos, named |-> named, rest |-> rest, ret |-> ret]
Dict(fields) == [k |-> "Dict", fields |-> fields]
Array(e) == [k |-> "Array", elem |-> e]
Tuple(es) == [k |-> "Tuple", elems |-> es]
FlowArgs(args, named) == [k |-> "Args", args |-> args, named |-> named]
With(callee, applied) == [k |-> "With", callee |-> callee, applied |-> applied]
At(target, field) == [k |-> "At", target |-> target, field |-> field]
Unary(op, e) == [k |-> "Unary", op |-> op, lhs |-> e]
Binary(op, l, r) == [k |-> "Binary", op |-> op, lhs |-> l, rhs |-> r]
If(c, t, e) == [k |-> "If", cond |-> c, then |-> t, else_ |-> e]
Union(es) == [k |-> "Union", elems |-> es]
Let(lbs, ubs) == [k |-> "Let", lbs |-> lbs, ubs |-> ubs]

\* a (name, type) pair of FlowSignature.named / FlowArgs.named
NamedTy(n, t) == [name |-> n, ty |-> t]
\* a (name, type, span) field of FlowRecord
Field(n, t, s) == [name |-> n, ty |-> t, span |-> s]

TysOf(named) == [i \in 1..Len(named) |-> named[i].ty]
NamesOf(fields) == {fields[i].name : i \in 1..Len(fields)}

(***************************************************************************)
(* TypeCanoStore (ty.rs:1128-1134): the cache kept under the mutex.        *)
(* overflow is set when a recursion re-enters a frame that is still        *)
(* active: the recursion is deterministic in that frame, so it never       *)
(* returns and the thread runs out of stack.                               *)
(***************************************************************************)
TypeCanoStore ==
    [cano_cache |-> <<>>, cano_local_cache |-> <<>>,
     positives |-> {}, negatives |-> {}, overflow |-> FALSE]

Put(f, key, val) == [x \in (DOMAIN f) \cup {key} |-> IF x = key THEN val ELSE f[x]]

(***************************************************************************)
(* TypeSimplifier::analyze (ty.rs:1160-1264).  vs is TypeCheckInfo.vars;   *)
(* active holds the (variable, polarity) frames on the call stack.         *)
(***************************************************************************)
RECURSIVE analyze(_, _, _, _, _), analyze_all(_, _, _, _, _)
analyze(ty, pol, c, vs, active) ==
    IF c.overflow THEN c
    ELSE CASE ty.k = "Var" ->
                IF <<ty.id, pol>> \in active
                THEN [c EXCEPT !.overflow = TRUE]
                ELSE LET c1 == IF pol
                               THEN [c EXCEPT !.positives = @ \cup {ty.id}]
                               ELSE [c EXCEPT !.negatives = @ \cup {ty.id}]
                         bs == IF pol THEN vs[ty.id].lbs ELSE vs[ty.id].ubs
                     IN analyze_all(bs, pol, c1, vs, active \cup {<<ty.id, pol>>})
           [] ty.k = "Func" ->
                LET c1 == analyze_all(ty.pos, ~pol, c, vs, active)
                    c2 == analyze_all(TysOf(ty.named), ~pol, c1, vs, active)
                    c3 == analyze_all(ty.rest, ~pol, c2, vs, active)
                IN analyze(ty.ret, pol, c3, vs, active)
           [] ty.k = "Dict" -> analyze_all(TysOf(ty.fields), pol, c, vs, active)
           [] ty.k = "Tuple" -> analyze_all(ty.elems, pol, c, vs, active)
           [] ty.k = "Array" -> analyze(ty.elem, pol, c, vs, active)
           [] ty.k = "With" ->
                LET RECURSIVE bundles(_, _)
                    bundles(i, cc) ==
                        IF i > Len(ty.applied) THEN cc
                        ELSE bundles(i + 1,
                                 analyze_all(ty.applied[i].args, pol, cc, vs, active))
                IN bundles(1, analyze(ty.callee, pol, c, vs, active))
           [] ty.k = "Args" -> analyze_all(ty.args, pol, c, vs, active)
           [] ty.k = "Unary" -> analyze(ty.lhs, pol, c, vs, active)
           [] ty.k = "Binary" ->
                analyze(ty.rhs, pol, analyze(ty.lhs, pol, c, vs, active), vs, active)
           [] ty.k = "If" ->
                analyze_all(<<ty.cond, ty.then, ty.else_>>, pol, c, vs, active)
           [] ty.k = "Union" -> analyze_all(ty.elems, pol, c, vs, active)
           [] ty.k = "At" -> analyze(ty.target, pol, c, vs, active)
           [] ty.k = "Let" ->
                analyze_all(ty.ubs, pol,
                            analyze_all(ty.lbs, ~pol, c, vs, active), vs, active)
           [] OTHER -> c

analyze_all(tys, pol, c, vs, active) ==
    IF tys = <<>> THEN c
    ELSE analyze_all(Tail(tys), pol, analyze(Head(tys), pol, c, vs, active), vs, active)

(***************************************************************************)
(* TypeSimplifier::transform (ty.rs:1266-1411).  Returns the rebuilt type  *)
(* and the cache.  The memo is keyed by (variable, principal).  The two    *)
(* early returns of the Var case (ty.rs:1299-1306) leave the function      *)
(* before the final insert of ty.rs:1312, so the memo keeps the Any that   *)
(* was stored on entry.                                                    *)
(***************************************************************************)
RECURSIVE transform(_, _, _, _, _), transform_all(_, _, _, _, _)
transform_var(ty, pol, c, vs, principal) ==
    LET key == <<ty.id, principal>> IN
    IF key \in DOMAIN c.cano_local_cache
    THEN [ty |-> c.cano_local_cache[key], c |-> c]
    ELSE LET c0 == [c EXCEPT !.cano_local_cache = Put(@, key, Any)]
             w == vs[ty.id]
             l == IF ~principal \/ (pol /\ ty.id \notin c0.negatives)
                  THEN transform_all(w.lbs, pol, c0, vs, principal)
                  ELSE [tys |-> <<>>, c |-> c0]
             u == IF ~principal \/ (~pol /\ ty.id \notin c0.positives)
                  THEN transform_all(w.ubs, ~pol, l.c, vs, principal)
                  ELSE [tys |-> <<>>, c |-> l.c]
         IN IF u.tys = <<>> /\ Len(l.tys) = 1 THEN [ty |-> l.tys[1], c |-> u.c]
            ELSE IF u.tys = <<>> /\ l.tys = <<>> THEN [ty |-> Any, c |-> u.c]
            ELSE LET res == Let(l.tys, u.tys)
                 IN [ty |-> res,
                     c |-> [u.c EXCEPT !.cano_local_cache = Put(@, key, res)]]

transform(ty, pol, c, vs, principal) ==
    CASE ty.k = "Var" -> transform_var(ty, pol, c, vs, principal)
      [] ty.k = "Func" ->
            LET p == transform_all(ty.pos, ~pol, c, vs, principal)
                n == transform_all(TysOf(ty.named), ~pol, p.c, vs, principal)
                r == transform_all(ty.rest, ~pol, n.c, vs, principal)
                t == transform(ty.ret, pol, r.c, vs, principal)
            IN [ty |-> Func(p.tys,
                            [i \in 1..Len(ty.named) |->
                                NamedTy(ty.named[i].name, n.tys[i])],
                            r.tys, t.ty),
                c |-> t.c]
      [] ty.k = "Dict" ->
            LET f == transform_all(TysOf(ty.fields), ~pol, c, vs, principal)
            IN [ty |-> Dict([i \in 1..Len(ty.fields) |->
                                Field(ty.fields[i].name, f.tys[i], ty.fields[i].span)]),
                c |-> f.c]
      [] ty.k = "Tuple" ->
            LET e == transform_all(ty.elems, pol, c, vs, principal)
            IN [ty |-> Tuple(e.tys), c |-> e.c]
      [] ty.k = "Array" ->
            LET e == transform(ty.elem, pol, c, vs, principal)
            IN [ty |-> Array(e.ty), c |-> e.c]
      [] ty.k = "With" ->
            LET p == transform(ty.callee, pol, c, vs, principal)
            IN [ty |-> With(p.ty, ty.applied), c |-> p.c]
      [] ty.k = "Args" ->
            LET a == transform_all(ty.args, pol, c, vs, principal)
                n == transform_all(TysOf(ty.named), pol, a.c, vs, principal)
            IN [ty |-> FlowArgs(a.tys,
                                [i \in 1..Len(ty.named) |->
                                    NamedTy(ty.named[i].name, n.tys[i])]),
                c |-> n.c]
      [] ty.k = "Union" ->
            LET e == transform_all(ty.elems, pol, c, vs, principal)
            IN [ty |-> Union(e.tys), c |-> e.c]
      [] ty.k = "Let" -> [ty |-> Any, c |-> c]
      [] OTHER -> [ty |-> ty, c |-> c]

transform_all(tys, pol, c, vs, principal) ==
    IF tys = <<>> THEN [tys |-> <<>>, c |-> c]
    ELSE LET h == transform(Head(tys), pol, c, vs, principal)
             t == transform_all(Tail(tys), pol, h.c, vs, principal)
         IN [tys |-> <<h.ty>> \o t.tys, c |-> t.c]

(***************************************************************************)
(* TypeCheckInfo::simplify (ty.rs:67-86), the part run under the lock:     *)
(* clear the per-call tables, then TypeSimplifier::simplify                *)
(* (ty.rs:1148-1158).  out is "ok" or "overflow" (the thread ran out of    *)
(* stack in analyze and the call never returns).                           *)
(***************************************************************************)
\* a simplify that forgets the three clear() calls
clear_cache_kept(c) == c

clear_cache(c) ==
    [c EXCEPT !.cano_local_cache = <<>>, !.positives = {}, !.negatives = {}]

worker_simplify(ty, principal, c, vs) ==
    IF <<ty, principal>> \in DOMAIN c.cano_cache
    THEN [out |-> "ok", ty |-> c.cano_cache[<<ty, principal>>], c |-> c]
    ELSE LET a == analyze(ty, TRUE, c, vs, {})
         IN IF a.overflow THEN [out |-> "overflow", ty |-> Undef, c |-> a]
            ELSE LET t == transform(ty, TRUE, a, vs, principal)
                 IN [out |-> "ok", ty |-> t.ty, c |-> t.c]

simplify(ty, principal, c, vs) == worker_simplify(ty, principal, clear_cache(c), vs)

(***************************************************************************)
(* check_signatures / instantiate_signature (def.rs:455-510).  res is the  *)
(* vector the signatures are pushed on.  instantiate_signature drops       *)
(* args.len() leading positional parameters, args being the vector of      *)
(* argument bundles of the With term.                                      *)
(***************************************************************************)
RECURSIVE check_signatures(_, _, _, _), check_signatures_each(_, _, _, _)
instantiate_signature(f, args, sigs, vs, principal) ==
    LET consume(sig) ==
            [sig EXCEPT !.pos = IF Len(sig.pos) > Len(args)
                                THEN SubSeq(sig.pos, Len(args) + 1, Len(sig.pos))
                                ELSE <<>>]
        finish(all) ==
            [i \in 1..Len(all) |-> IF i <= Len(sigs) THEN all[i] ELSE consume(all[i])]
    IN finish(check_signatures(f, sigs, vs, principal))

check_signatures(ty, res, vs, principal) ==
    CASE ty.k = "Func" -> Append(res, ty)
      [] ty.k = "With" -> instantiate_signature(ty.callee, ty.applied, res, vs, principal)
      [] ty.k = "Union" -> check_signatures_each(ty.elems, res, vs, principal)
      [] ty.k = "Var" ->
            IF ty.id \in DOMAIN vs
            THEN check_signatures_each(
                     vs[ty.id].ubs \o (IF principal THEN <<>> ELSE vs[ty.id].lbs),
                     res, vs, principal)
            ELSE res
      [] OTHER -> res

check_signatures_each(tys, res, vs, principal) ==
    IF tys = <<>> THEN res
    ELSE check_signatures_each(Tail(tys), check_signatures(Head(tys), res, vs, principal),
                               vs, principal)

(***************************************************************************)
(* FlowType::signatures (def.rs:179-201).  Every positional and named type *)
(* of every signature goes through TypeCheckInfo::simplify, one call after *)
(* the other (simplify_each); sigs = <<>> stands for None.                 *)
(***************************************************************************)
RECURSIVE simplify_each(_, _, _, _, _)
simplify_each(tys, principal, c, vs, acc) ==
    IF tys = <<>> THEN [out |-> "ok", tys |-> acc, c |-> c]
    ELSE LET next(r) ==
                 IF r.out = "overflow" THEN [out |-> "overflow", tys |-> acc, c |-> r.c]
                 ELSE simplify_each(Tail(tys), principal, r.c, vs, Append(acc, r.ty))
         IN next(simplify(Head(tys), principal, c, vs))

RECURSIVE types_of(_)
types_of(sigs) ==
    IF sigs = <<>> THEN <<>>
    ELSE Head(sigs).pos \o TysOf(Head(sigs).named) \o types_of(Tail(sigs))

RECURSIVE with_types(_, _)
with_types(sigs, tys) ==
    IF sigs = <<>> THEN <<>>
    ELSE LET put(sig, np, nn) ==
                 <<[sig EXCEPT !.pos = SubSeq(tys, 1, np),
                               !.named = [i \in 1..nn |->
                                             NamedTy(sig.named[i].name, tys[np + i])]]>>
                 \o with_types(Tail(sigs), SubSeq(tys, np + nn + 1, Len(tys)))
         IN put(Head(sigs), Len(Head(sigs).pos), Len(Head(sigs).named))

signatures(ty, c, vs, principal) ==
    LET done(res, r) ==
            [out |-> r.out,
             sigs |-> IF r.out = "ok" THEN with_types(res, r.tys) ELSE <<>>,
             c |-> r.c]
        each(res) == done(res, simplify_each(types_of(res), principal, c, vs, <<>>))
    IN each(check_signatures(ty, <<>>, vs, principal))

(***************************************************************************)
(* The catalog and the runtime signature analyzer live outside the three   *)
(* files modelled here; their shapes follow the specification's            *)
(* description (section 4.5, scenario 3).                                  *)
(***************************************************************************)
DictAliases == {"Stroke", "Margin", "Inset", "Outset", "Radius"}

\* FLOW_STROKE_DICT, FLOW_MARGIN_DICT, FLOW_INSET_DICT, FLOW_OUTSET_DICT,
\* FLOW_RADIUS_DICT: the canonical dict shape of each alias
FLOW_DICT(b) ==
    IF b = "Stroke"
    THEN Dict(<<Field("paint", Builtin("Color"), Detached),
                Field("thickness", Builtin("Length"), Detached)>>)
    ELSE IF b = "Radius"
    THEN Dict(<<Field("top", Builtin("Length"), Detached),
                Field("rest", Builtin("Length"), Detached)>>)
    ELSE Dict(<<Field("top", Builtin("Length"), Detached),
                Field("left", Builtin("Length"), Detached),
                Field("rest", Builtin("Length"), Detached)>>)

\* typst values: integers and library functions
IntVal(n) == [vk |-> "int", n |-> n]
FuncVal(f) == [vk |-> "func", f |-> f]
\* a value of the library's math module
MathVal(f) == [vk |-> "math", f |-> f]

\* the names bound in the library's global scope and in its math scope
GlobalScope == {"rect", "rgb"}
MathScope == {"sqrt"}

(***************************************************************************)
(* resolve_global_value(ctx, node, is_math): the value the identifier has  *)
(* in the math scope of the library when is_math, in its global scope      *)
(* otherwise; a sequence of length 0 or 1.                                 *)
(***************************************************************************)
resolve_global_value(name, is_math) ==
    IF is_math
    THEN IF name \in MathScope THEN <<MathVal(name)>> ELSE <<>>
    ELSE IF name \in GlobalScope THEN <<FuncVal(name)>> ELSE <<>>

\* library callables known to the runtime signature analyzer
RuntimeFuncs == {"rect", "rgb"}

\* analyze_dyn_signature(f).primary(): infer_type / ret_ty are options,
\* written as sequences of length 0 or 1
analyze_dyn_signature(f) ==
    IF f = "rect"
    THEN [pos |-> <<<<Content>>>>,
          named |-> <<[name |-> "stroke", infer_type |-> <<Builtin("Stroke")>>],
                      [name |-> "inset", infer_type |-> <<Builtin("Inset")>>],
                      [name |-> "fill", infer_type |-> <<Builtin("Color")>>]>>,
          ret_ty |-> <<Element("rect")>>]
    ELSE [pos |-> <<<<>>>>,
          named |-> <<>>,
          ret_ty |-> <<Builtin("Color")>>]

(***************************************************************************)
(* The walker's view of TypeCheckInfo while it runs: vars (def id ->       *)
(* FlowVar with its bound store), mapping (span -> type), the number of    *)
(* stores allocated, the stores on which the walking thread holds a read   *)
(* guard, and whether the thread is blocked in RwLock::write on a store    *)
(* it read-holds itself.  alias and recorded remember, for the             *)
(* properties below, the last dict-alias coercion, the call results        *)
(* written by check and, per variable, the values handed to ever_be and    *)
(* as_strong.  mode is TypeChecker::mode (Markup at construction,          *)
(* ty.rs:43); seen remembers, per identifier checked, the mode in force,   *)
(* what the def-use resolver answered and the type check_ident returned.   *)
(***************************************************************************)
EmptyInfo ==
    [vars |-> <<>>, mapping |-> <<>>, nstore |-> 0, held |-> {}, stuck |-> FALSE,
     alias |-> <<>>, recorded |-> <<>>, calls |-> <<>>, passed |-> <<>>,
     mode |-> "Markup", seen |-> <<>>]

\* FlowVar with a fresh FlowVarStore (ty.rs:664-672)
FlowVar(store) == [lbs |-> <<>>, ubs |-> <<>>, store |-> store]

\* HashMap::insert on mapping
map_insert(w, s, ty) ==
    IF w.stuck THEN w ELSE [w EXCEPT !.mapping = Put(@, s, ty)]

\* mapping.entry(s).or_insert(ty)
map_or_insert(w, s, ty) ==
    IF w.stuck \/ s \in DOMAIN w.mapping THEN w
    ELSE [w EXCEPT !.mapping = Put(@, s, ty)]

\* w.write(); w.lbs.push(ty): blocks for ever when this thread read-holds w
push_lb(w, id, ty) ==
    IF w.stuck THEN w
    ELSE IF w.vars[id].store \in w.held THEN [w EXCEPT !.stuck = TRUE]
    ELSE [w EXCEPT !.vars[id].lbs = Append(@, ty)]

\* a push that appends the bound twice
push_ub_twice(w, id, ty) ==
    IF w.stuck THEN w
    ELSE IF w.vars[id].store \in w.held THEN [w EXCEPT !.stuck = TRUE]
    ELSE [w EXCEPT !.vars[id].ubs = Append(Append(@, ty), ty)]

\* w.write(); w.ubs.push(ty)
push_ub(w, id, ty) ==
    IF w.stuck THEN w
    ELSE IF w.vars[id].store \in w.held THEN [w EXCEPT !.stuck = TRUE]
    ELSE [w EXCEPT !.vars[id].ubs = Append(@, ty)]

\* a get_var that inserts instead of entry().or_insert_with()
get_var_fresh(w, id, s) ==
    map_insert([w EXCEPT !.vars = Put(@, id, FlowVar(w.nstore + 1)), !.nstore = @ + 1],
               s, Var(id))

(***************************************************************************)
(* TypeChecker::get_var (ty.rs:650-677); id = 0 stands for an identifier   *)
(* the def-use resolver knows neither as reference nor as definition.      *)
(***************************************************************************)
get_var(w, id, s) ==
    LET w1 == IF id \in DOMAIN w.vars THEN w
              ELSE [w EXCEPT !.vars = Put(@, id, FlowVar(w.nstore + 1)),
                             !.nstore = @ + 1]
    IN map_insert(w1, s, Var(id))

\* the argument of an ever_be / as_strong call, remembered for the
\* properties below
note_passed(w, id, exp) ==
    IF w.stuck THEN w
    ELSE [w EXCEPT !.passed =
             Put(@, id, (IF id \in DOMAIN w.passed THEN w.passed[id] ELSE <<>>) \o <<exp>>)]

\* an ever_be that puts the value in front of the earlier bounds
ever_be_front(w, id, exp) ==
    [note_passed(w, id, exp) EXCEPT !.vars[id].lbs = <<exp>> \o @]

\* FlowVar::ever_be (def.rs:312-320)
ever_be(w, id, exp) == push_lb(note_passed(w, id, exp), id, exp)

\* FlowVar::as_strong (def.rs:322-331)
as_strong(w, id, exp) == push_lb(note_passed(w, id, exp), id, exp)

\* an intersect_keys_enumerate that yields nothing when a is the shorter
intersect_keys_enumerate_longer(a, b) ==
    LET position(name) ==
            LET js == {j \in 1..Len(b) : b[j].name = name}
            IN IF js = {} THEN 0 ELSE CHOOSE j \in js : \A j2 \in js : j <= j2
        RECURSIVE go(_)
        go(i) ==
            IF i > Len(a) THEN <<>>
            ELSE (IF position(a[i].name) = 0 THEN <<>>
                  ELSE << <<i, position(a[i].name)>> >>) \o go(i + 1)
    IN IF Len(a) < Len(b) THEN <<>> ELSE go(1)

(***************************************************************************)
(* FlowRecord::intersect_keys_enumerate (def.rs:402-426) on two field      *)
(* lists: the index pairs (index in a, index in b), in iteration order.    *)
(***************************************************************************)
intersect_keys_enumerate(a, b) ==
    LET swapped == Len(a) < Len(b)
        l == IF swapped THEN b ELSE a
        r == IF swapped THEN a ELSE b
        position(name) ==
            LET js == {j \in 1..Len(r) : r[j].name = name}
            IN IF js = {} THEN 0 ELSE CHOOSE j \in js : \A j2 \in js : j <= j2
        RECURSIVE go(_)
        go(i) ==
            IF i > Len(l) THEN <<>>
            ELSE LET j == position(l[i].name)
                 IN (IF j = 0 THEN <<>>
                     ELSE IF swapped THEN << <<j, i>> >> ELSE << <<i, j>> >>) \o go(i + 1)
    IN go(1)

\* an intersect_keys that pairs the fields by position instead of by name
intersect_keys_by_position(a, b) ==
    [i \in 1..(IF Len(a) < Len(b) THEN Len(a) ELSE Len(b)) |-> <<i, i>>]

\* FlowRecord::intersect_keys (def.rs:428-439)
intersect_keys(a, b) == intersect_keys_enumerate(a, b)

IsAlias(t) == t.k = "Builtin" /\ t.b \in DictAliases

\* a backfill that overwrites the entry the span has
record_at_insert(w, s, ty) == IF s # Detached THEN map_insert(w, s, ty) ELSE w

\* if !span.is_detached() { mapping.entry(span).or_insert(ty) }
\* (ty.rs:907-912, 917-919, 924-926)
record_at(w, s, ty) == IF s # Detached THEN map_or_insert(w, s, ty) ELSE w

\* the alias remembered for the properties below
note_alias(w, dict, b) == [w EXCEPT !.alias = <<[d |-> dict, s |-> b]>>]

(***************************************************************************)
(* TypeChecker::constrain (ty.rs:797-934).  The ten alias arms             *)
(* (ty.rs:850-901) come before the Dict and Value arms, so a pair with an  *)
(* alias on either side never reaches those.  constrain_fields is the      *)
(* loop of the Dict arm (ty.rs:902-915) over the shared keys,              *)
(* constrain_each_lhs and constrain_each_rhs the loops of the two Union    *)
(* arms (ty.rs:840-849).                                                   *)
(***************************************************************************)
RECURSIVE constrain(_, _, _), constrain_fields(_, _, _, _)
RECURSIVE constrain_each_lhs(_, _, _), constrain_each_rhs(_, _, _)
constrain(w, lhs, rhs) ==
    IF w.stuck THEN w
    ELSE IF lhs.k = "Var" /\ rhs.k = "Var" THEN w
    ELSE IF lhs.k = "Var" THEN push_ub(w, lhs.id, rhs)
    ELSE IF rhs.k = "Var" THEN push_lb(w, rhs.id, lhs)
    ELSE IF lhs.k = "Union" THEN constrain_each_lhs(w, lhs.elems, rhs)
    ELSE IF rhs.k = "Union" THEN constrain_each_rhs(w, lhs, rhs.elems)
    ELSE IF IsAlias(lhs) \/ IsAlias(rhs) THEN
        IF IsAlias(rhs) /\ lhs.k = "Dict"
        THEN constrain(note_alias(w, lhs, rhs.b), lhs, FLOW_DICT(rhs.b))
        ELSE IF IsAlias(lhs) /\ rhs.k = "Dict"
        THEN constrain(note_alias(w, rhs, lhs.b), FLOW_DICT(lhs.b), rhs)
        ELSE w
    ELSE IF lhs.k = "Dict" /\ rhs.k = "Dict" THEN
        constrain_fields(w, lhs.fields, rhs.fields,
                         intersect_keys(lhs.fields, rhs.fields))
    ELSE IF lhs.k = "Value" THEN record_at(w, lhs.span, rhs)
    ELSE IF rhs.k = "Value" THEN record_at(w, rhs.span, lhs)
    ELSE w

\* for e in v.iter() { self.constrain(e, rhs) } (ty.rs:840-844)
constrain_each_lhs(w, elems, rhs) ==
    IF elems = <<>> THEN w
    ELSE constrain_each_lhs(constrain(w, Head(elems), rhs), Tail(elems), rhs)

\* a loop over the union that stops after its first element
constrain_first_rhs(w, lhs, elems) ==
    IF elems = <<>> THEN w ELSE constrain(w, lhs, Head(elems))

\* for e in v.iter() { self.constrain(lhs, e) } (ty.rs:845-849)
constrain_each_rhs(w, lhs, elems) ==
    IF elems = <<>> THEN w
    ELSE constrain_each_rhs(constrain(w, lhs, Head(elems)), lhs, Tail(elems))

constrain_fields(w, a, b, pairs) ==
    IF pairs = <<>> THEN w
    ELSE LET step(fl, fr) ==
                 record_at(record_at(constrain(w, fl.ty, fr.ty), fl.span, fr.ty),
                           fr.span, fl.ty)
         IN constrain_fields(step(a[pairs[1][1]], b[pairs[1][2]]), a, b, Tail(pairs))

\* TypeChecker::check_primary_type (ty.rs:936-980)
RECURSIVE check_primary_type(_, _)
check_primary_type(w, e) ==
    IF e.k = "Var"
    THEN IF w.vars[e.id].ubs # <<>> THEN w.vars[e.id].ubs[1]
         ELSE IF w.vars[e.id].lbs # <<>> THEN w.vars[e.id].lbs[1]
         ELSE Any
    ELSE IF e.k = "At" THEN check_primary_type(w, e.target)
    ELSE e

\* the first index of seq whose name is n (0: none)
find_named(seq, n) ==
    IF \E j \in 1..Len(seq) : seq[j].name = n
    THEN CHOOSE j \in 1..Len(seq) :
             seq[j].name = n /\ \A j2 \in 1..(j - 1) : seq[j2].name # n
    ELSE 0

\* the argument matching shared by the Func arm of check_apply
\* (ty.rs:733-749) and by check_apply_method (ty.rs:996-1011)
match_args(w, f, args) ==
    LET RECURSIVE pos(_, _)
        pos(i, ww) ==
            IF i > Len(args.args) THEN ww
            ELSE pos(i + 1, constrain(ww, args.args[i],
                                      IF i <= Len(f.pos) THEN f.pos[i] ELSE Any))
        one(ww, a, j) == IF j = 0 THEN ww ELSE constrain(ww, a.ty, f.named[j].ty)
        RECURSIVE named(_, _)
        named(i, ww) ==
            IF i > Len(args.named) THEN ww
            ELSE named(i + 1, one(ww, args.named[i],
                                  find_named(f.named, args.named[i].name)))
    IN named(1, pos(1, w))

\* candidates.push(c), reached only when the thread is not blocked
push_candidate(w, cands, c) ==
    [w |-> w, cands |-> IF w.stuck THEN cands ELSE Append(cands, c)]

\* TypeChecker::partial_apply (ty.rs:1085-1090)
partial_apply(f, args) == With(f, <<args>>)

\* TypeChecker::check_apply_method (ty.rs:982-1023)
check_apply_method(w, primary_type, method_name, args, cands) ==
    IF primary_type.k = "Func" /\ method_name \in {"with", "where"}
    THEN push_candidate(match_args(w, primary_type, args), cands,
                        partial_apply(primary_type, args))
    ELSE [w |-> w, cands |-> cands]

(***************************************************************************)
(* TypeChecker::check_apply_runtime (ty.rs:1025-1083).  syntax holds the   *)
(* spans of the argument nodes: pos (one per positional argument) and      *)
(* named (name, span of the Named node, span of its expression).           *)
(***************************************************************************)
check_apply_runtime(w, f, args, syntax, cands) ==
    LET pos_ty(sig, i) == IF i <= Len(sig.pos) /\ sig.pos[i] # <<>>
                          THEN sig.pos[i][1] ELSE Any
        at_pos(ww, i, ty) ==
            IF i <= Len(syntax.pos) THEN map_insert(ww, syntax.pos[i], ty) ELSE ww
        RECURSIVE pos(_, _, _)
        pos(sig, i, ww) ==
            IF i > Len(args.args) THEN ww
            ELSE pos(sig, i + 1,
                     at_pos(constrain(ww, args.args[i], pos_ty(sig, i)),
                            i, pos_ty(sig, i)))
        at_named(ww, j, ty) ==
            IF j = 0 THEN ww
            ELSE map_insert(map_insert(ww, syntax.named[j].span, ty),
                            syntax.named[j].expr, ty)
        one(ww, a, e) ==
            IF e.infer_type = <<>> THEN ww
            ELSE at_named(constrain(ww, a.ty, e.infer_type[1]),
                          find_named(syntax.named, a.name), e.infer_type[1])
        lookup(sig, j) == IF j = 0 THEN [infer_type |-> <<>>] ELSE sig.named[j]
        RECURSIVE named(_, _, _)
        named(sig, i, ww) ==
            IF i > Len(args.named) THEN ww
            ELSE named(sig, i + 1,
                       one(ww, args.named[i],
                           lookup(sig, find_named(sig.named, args.named[i].name))))
        run(sig) ==
            push_candidate(named(sig, 1, pos(sig, 1, w)), cands,
                           IF sig.ret_ty # <<>> THEN sig.ret_ty[1] ELSE Any)
    IN run(analyze_dyn_signature(f))

(***************************************************************************)
(* TypeChecker::check_apply (ty.rs:709-795).  In the Var arm the read      *)
(* guard on the variable's store is held while the bounds are applied      *)
(* (check_apply_each: the two loops of ty.rs:723-728) and dropped at the   *)
(* end of the arm.                                                         *)
(***************************************************************************)
read_guard(w, store) == [w EXCEPT !.held = @ \cup {store}]
drop_guard(r, held) == IF r.w.stuck THEN r ELSE [r EXCEPT !.w.held = held]

RECURSIVE check_apply(_, _, _, _, _), check_apply_each(_, _, _, _)
check_apply(w, callee, args, syntax, cands) ==
    IF w.stuck THEN [w |-> w, cands |-> cands]
    ELSE IF callee.k = "Var" THEN
        drop_guard(check_apply_each([w |-> read_guard(w, w.vars[callee.id].store),
                                     cands |-> cands],
                                    w.vars[callee.id].lbs \o w.vars[callee.id].ubs,
                                    args, syntax),
                   w.held)
    ELSE IF callee.k = "Func" THEN
        push_candidate(match_args(w, callee, args), cands, callee.ret)
    ELSE IF callee.k \in {"Value", "ValueDoc"} THEN
        IF callee.v.vk = "func" /\ callee.v.f \in RuntimeFuncs
        THEN check_apply_runtime(w, callee.v.f, args, syntax, cands)
        ELSE [w |-> w, cands |-> cands]
    ELSE IF callee.k = "At" THEN
        check_apply_method(w, check_primary_type(w, callee.target), callee.field,
                           args, cands)
    ELSE [w |-> w, cands |-> cands]

check_apply_each(r, bs, args, syntax) ==
    IF bs = <<>> THEN r
    ELSE check_apply_each(check_apply(r.w, Head(bs), args, syntax, r.cands),
                          Tail(bs), args, syntax)

\* a possible_ever_be that posts whatever rhs is
possible_ever_be_any(w, lhs, rhs) == constrain(w, rhs, lhs)

\* TypeChecker::possible_ever_be (ty.rs:1108-1125)
possible_ever_be(w, lhs, rhs) ==
    IF rhs.k \in {"Undef", "Content", "None", "FlowNone", "Auto", "Element",
                  "Builtin", "Value", "Boolean", "ValueDoc"}
    THEN constrain(w, rhs, lhs)
    ELSE w

(***************************************************************************)
(* Syntax nodes.  A node is a record tagged by kind with its span; the     *)
(* def-use resolver's answer for an identifier is part of the node: ref    *)
(* is the definition id of get_ref (0: none), glob the library value       *)
(* resolve_global_value finds ("": none).                                  *)
(***************************************************************************)
IntNode(s, v) == [kind |-> "Int", span |-> s, v |-> v]
IdentNode(s, ref, glob) == [kind |-> "Ident", span |-> s, ref |-> ref, glob |-> glob]
ArrayNode(s, items) == [kind |-> "Array", span |-> s, items |-> items]
DictNode(s, items) == [kind |-> "Dict", span |-> s, items |-> items]
NamedNode(s, name, expr) == [name |-> name, span |-> s, expr |-> expr]
FieldAccessNode(s, target, field) ==
    [kind |-> "FieldAccess", span |-> s, target |-> target, field |-> field]
ArgNode(tag, s, name, expr) == [tag |-> tag, span |-> s, name |-> name, expr |-> expr]
ArgsNode(s, items) == [kind |-> "Args", span |-> s, items |-> items]
FuncCallNode(s, callee, args) ==
    [kind |-> "FuncCall", span |-> s, callee |-> callee, args |-> args]
ParamNode(tag, pat, s, def, name, expr) ==
    [tag |-> tag, pat |-> pat, span |-> s, def |-> def, name |-> name, expr |-> expr]
ClosureNode(s, params, body) ==
    [kind |-> "Closure", span |-> s, params |-> params, body |-> body]
LetBindingNode(s, bkind, pat, nspan, def, init) ==
    [kind |-> "LetBinding", span |-> s, bkind |-> bkind, pat |-> pat,
     nspan |-> nspan, def |-> def, init |-> init]
BinaryNode(s, op, lhs, rhs) ==
    [kind |-> "Binary", span |-> s, op |-> op, lhs |-> lhs, rhs |-> rhs]
\* ..e inside an array: one of the kinds check_inner types as Clause
SpreadNode(s, e) == [kind |-> "Spread", span |-> s, expr |-> e]
\* an identifier of an equation
MathIdentNode(s, ref, glob) ==
    [kind |-> "MathIdent", span |-> s, ref |-> ref, glob |-> glob]
\* a node without children that matter: Space, Text, LoopBreak, Break, ...
LeafNode(kind, s) == [kind |-> kind, span |-> s]
\* Markup, Math, Code, CodeBlock, ContentBlock, Strong, ... with children
ContainerNode(kind, s, children) == [kind |-> kind, span |-> s, children |-> children]

Some(w, ty) == [some |-> TRUE, ty |-> ty, w |-> w]
Nothing(w) == [some |-> FALSE, ty |-> Undef, w |-> w]

\* the spans check_apply_runtime reads off ast::Args (ty.rs:1041-1066)
syntax_args(args) ==
    LET P == SelectSeq(args.items, LAMBDA a : a.tag = "Pos")
        N == SelectSeq(args.items, LAMBDA a : a.tag = "Named")
    IN [pos |-> [i \in 1..Len(P) |-> P[i].expr.span],
        named |-> [i \in 1..Len(N) |->
                      [name |-> N[i].name, span |-> N[i].span, expr |-> N[i].expr.span]]]

RECURSIVE check(_, _)

\* TypeChecker::check_expr_in (ty.rs:644-648): the span is that of a child
check_expr_in(w, node) == check(w, node)

\* the identifier just checked, remembered for the properties below
note_seen(r, node) ==
    [r EXCEPT !.w.seen = Put(@, node.span, [mode |-> r.w.mode, ref |-> node.ref,
                                            glob |-> node.glob, ty |-> r.ty])]

(***************************************************************************)
(* TypeChecker::check_ident (ty.rs:282-297); mode is the argument          *)
(* check_inner passes, not TypeChecker::mode.                              *)
(***************************************************************************)
check_ident(w, node, mode) ==
    LET v == resolve_global_value(node.glob, mode = "Math")
    IN note_seen(IF node.ref = 0
                 THEN IF v = <<>> THEN Nothing(w) ELSE Some(w, Value(v[1], node.span))
                 ELSE IF node.ref \notin DOMAIN w.vars THEN Nothing(w)
                 ELSE Some(w, Var(node.ref)),
                 node)

\* Joiner::default (ty.rs:1501-1509)
Joiner ==
    [break_or_continue_or_return |-> FALSE, definite |-> None, possibles |-> <<>>]

\* Joiner::join (ty.rs:1442-1498)
join(j, child) ==
    IF j.break_or_continue_or_return THEN j
    ELSE IF child.k \in {"Clause", "Undef"} THEN j
    ELSE IF child.k = "Any" \/ j.definite.k = "Any" THEN j
    ELSE IF child.k \in {"Infer", "None", "FlowNone"} THEN j
    ELSE IF child.k = "Content" THEN
        IF j.definite.k = "Content" THEN j
        ELSE IF j.definite.k = "None" THEN [j EXCEPT !.definite = Content]
        ELSE [j EXCEPT !.definite = Undef]
    ELSE IF child.k = "Var" THEN [j EXCEPT !.possibles = Append(@, child)]
    ELSE IF j.definite.k = "None" THEN [j EXCEPT !.definite = child]
    ELSE [j EXCEPT !.definite = Undef]

\* a finalize that ignores the variable children
finalize_definite(j) == j.definite

\* Joiner::finalize (ty.rs:1427-1440)
finalize(j) == IF j.possibles = <<>> THEN j.definite ELSE Any

\* TypeChecker::check_children (ty.rs:273-280)
check_children(w, node) ==
    LET RECURSIVE each(_, _, _)
        each(i, ww, joiner) ==
            IF i > Len(node.children) THEN Some(ww, finalize(joiner))
            ELSE LET r == check(ww, node.children[i])
                 IN each(i + 1, r.w, join(joiner, r.ty))
    IN each(1, w, Joiner)

\* TypeChecker::check_in_mode (ty.rs:265-271)
check_in_mode(w, node, into_mode) ==
    LET mode == w.mode
        res == check_children([w EXCEPT !.mode = into_mode], node)
    IN [res EXCEPT !.w.mode = mode]

\* a check_array that keeps the Clause children as elements
check_array_keep_clause(w, node) ==
    LET RECURSIVE each(_, _, _)
        each(i, ww, elems) ==
            IF i > Len(node.items) THEN Some(ww, Tuple(elems))
            ELSE LET r == check(ww, node.items[i])
                 IN each(i + 1, r.w, Append(elems, r.ty))
    IN each(1, w, <<>>)

\* TypeChecker::check_array (ty.rs:299-313)
check_array(w, node) ==
    LET RECURSIVE each(_, _, _)
        each(i, ww, elems) ==
            IF i > Len(node.items) THEN Some(ww, Tuple(elems))
            ELSE LET r == check(ww, node.items[i])
                 IN each(i + 1, r.w,
                         IF r.ty.k = "Clause" THEN elems ELSE Append(elems, r.ty))
    IN each(1, w, <<>>)

\* TypeChecker::check_dict (ty.rs:315-340), Named items
check_dict(w, node) ==
    LET RECURSIVE each(_, _, _)
        each(i, ww, fields) ==
            IF i > Len(node.items) THEN Some(ww, Dict(fields))
            ELSE LET n == node.items[i]
                     r == check_expr_in(ww, n.expr)
                 IN each(i + 1, r.w, Append(fields, Field(n.name, r.ty, n.span)))
    IN each(1, w, <<>>)

\* TypeChecker::check_field_access (ty.rs:411-418)
check_field_access(w, node) ==
    LET r == check_expr_in(w, node.target)
    IN Some(r.w, At(r.ty, node.field))

\* TypeChecker::check_args (ty.rs:444-469)
check_args(w, node) ==
    LET RECURSIVE each(_, _, _, _)
        each(i, ww, args_res, named) ==
            IF i > Len(node.items) THEN Some(ww, FlowArgs(args_res, named))
            ELSE LET a == node.items[i]
                     r == check_expr_in(ww, a.expr)
                 IN IF a.tag = "Pos"
                    THEN each(i + 1, r.w, Append(args_res, r.ty), named)
                    ELSE each(i + 1, r.w, args_res, Append(named, NamedTy(a.name, r.ty)))
    IN each(1, w, <<>>, <<>>)

\* TypeChecker::check_func_call (ty.rs:420-442)
check_func_call(w, node) ==
    LET result(cands) == IF Len(cands) = 1 THEN cands[1]
                         ELSE IF cands = <<>> THEN Any
                         ELSE Union(cands)
        note_call(ww, callee, args, cands) ==
            IF ww.stuck THEN ww
            ELSE [ww EXCEPT !.calls =
                     <<[span |-> node.span, callee |-> callee, args |-> args,
                        cands |-> cands, ret |-> result(cands)]>>]
        done(callee, args, r) ==
            Some(note_call(r.w, callee, args, r.cands), result(r.cands))
        apply(a, c) ==
            done(c.ty, a.ty,
                 IF a.ty.k = "Args"
                 THEN check_apply(c.w, c.ty, a.ty, syntax_args(node.args), <<>>)
                 ELSE [w |-> c.w, cands |-> <<>>])
        with_args(a) == apply(a, check_expr_in(a.w, node.callee))
    IN with_args(check_expr_in(w, node.args))

\* TypeChecker::check_pattern / check_pattern_ (ty.rs:679-707)
check_pattern(w, pattern, value) ==
    IF pattern.pat = "Ident"
    THEN IF pattern.def = 0 THEN [w |-> w, ty |-> Undef]
         ELSE [w |-> ever_be(get_var(w, pattern.def, pattern.span), pattern.def, value),
               ty |-> Var(pattern.def)]
    ELSE [w |-> w, ty |-> Any]

(***************************************************************************)
(* TypeChecker::check_closure (ty.rs:471-511).  named is a BTreeMap keyed  *)
(* by parameter name: a repeated name replaces the earlier entry.          *)
(***************************************************************************)
check_closure(w, node) ==
    LET insert(named, n, ty) ==
            IF \E j \in 1..Len(named) : named[j].name = n
            THEN [j \in 1..Len(named) |->
                     IF named[j].name = n THEN NamedTy(n, ty) ELSE named[j]]
            ELSE Append(named, NamedTy(n, ty))
        RECURSIVE each(_, _, _, _, _)
        each(i, ww, pos, named, rest) ==
            IF i > Len(node.params)
            THEN LET b == check_expr_in(ww, node.body)
                 IN Some(b.w, Func(pos, named, rest, b.ty))
            ELSE LET p == node.params[i] IN
                 IF p.tag = "Pos"
                 THEN LET next(r) == each(i + 1, r.w, Append(pos, r.ty), named, rest)
                      IN next(check_pattern(ww, p, Any))
                 ELSE IF p.tag = "Named"
                 THEN LET e == check_expr_in(ww, p.expr)
                      IN IF p.def = 0 THEN Nothing(e.w)
                         ELSE each(i + 1,
                                   ever_be(get_var(e.w, p.def, p.span), p.def, e.ty),
                                   pos, insert(named, p.name, Var(p.def)), rest)
                 ELSE IF p.def = 0 THEN Nothing(ww)
                 ELSE each(i + 1,
                           ever_be(get_var(ww, p.def, p.span), p.def, Builtin("Args")),
                           pos, named, <<Var(p.def)>>)
    IN each(1, w, <<>>, <<>>, <<>>)

\* TypeChecker::check_let (ty.rs:513-540); init is a sequence of length 0 or 1
check_let(w, node) ==
    LET v == IF node.init = <<>> THEN [w |-> w, ty |-> Infer]
             ELSE check_expr_in(w, node.init[1])
    IN IF node.bkind = "Closure"
       THEN IF node.def = 0 THEN Nothing(v.w)
            ELSE Some(as_strong(get_var(v.w, node.def, node.nspan), node.def, v.ty), Any)
       ELSE Some(check_pattern(v.w, [pat |-> node.pat, def |-> node.def,
                                     span |-> node.nspan], v.ty).w,
                 Any)

\* TypeChecker::check_binary (ty.rs:361-409), the operands are not constant
check_binary(w, node) ==
    LET l == check_expr_in(w, node.lhs)
        r == check_expr_in(l.w, node.rhs)
        w1 == IF node.op \in {"==", "!=", "<=", ">="}
              THEN possible_ever_be(possible_ever_be(r.w, l.ty, r.ty), r.ty, l.ty)
              ELSE IF node.op \in {"and", "or"}
              THEN constrain(constrain(r.w, l.ty, Boolean("none")), r.ty, Boolean("none"))
              ELSE IF node.op = "="
              THEN possible_ever_be(r.w, l.ty, r.ty)
              ELSE r.w
    IN Some(w1, Binary(node.op, l.ty, r.ty))

\* TypeChecker::check_inner (ty.rs:117-263), the node kinds of the model
check_inner(w, node) ==
    CASE node.kind = "Markup" -> check_in_mode(w, node, "Markup")
      [] node.kind = "Math" -> check_in_mode(w, node, "Math")
      [] node.kind = "Code" -> check_in_mode(w, node, "Code")
      [] node.kind = "CodeBlock" -> check_in_mode(w, node, "Code")
      [] node.kind = "ContentBlock" -> check_in_mode(w, node, "Markup")
      [] node.kind \in {"Space", "Parbreak"} -> Some(w, None)
      [] node.kind \in {"Text", "Linebreak"} -> Some(w, Content)
      [] node.kind \in {"Strong", "Emph", "Equation", "Parenthesized"} ->
            check_children(w, node)
      [] node.kind \in {"LoopBreak", "LoopContinue", "FuncReturn"} -> Some(w, None)
      [] node.kind = "None" -> Some(w, None)
      [] node.kind = "Auto" -> Some(w, Auto)
      [] node.kind \in {"Break", "Continue", "Return"} -> Some(w, FlowNone)
      [] node.kind = "Ident" -> check_ident(w, node, "Code")
      [] node.kind = "MathIdent" -> check_ident(w, node, "Math")
      [] node.kind = "Int" ->
            IF node.v = 0 THEN Nothing(w) ELSE Some(w, Value(IntVal(node.v), node.span))
      [] node.kind = "Array" -> check_array(w, node)
      [] node.kind = "Dict" -> check_dict(w, node)
      [] node.kind = "Binary" -> check_binary(w, node)
      [] node.kind = "FieldAccess" -> check_field_access(w, node)
      [] node.kind = "FuncCall" -> check_func_call(w, node)
      [] node.kind = "Args" -> check_args(w, node)
      [] node.kind = "Closure" -> check_closure(w, node)
      [] node.kind = "LetBinding" -> check_let(w, node)
      [] OTHER -> Some(w, Clause)

(***************************************************************************)
(* TypeChecker::check (ty.rs:106-115): a node that check_inner cannot type *)
(* yields Undef; the result of a FuncCall node is stored at its span.      *)
(***************************************************************************)
check(w, node) ==
    LET record(ww, ty) ==
            IF node.kind = "FuncCall" /\ ~ww.stuck
            THEN [w |-> [map_insert(ww, node.span, ty) EXCEPT
                             !.recorded = Put(@, node.span, ty)],
                  ty |-> ty]
            ELSE [w |-> ww, ty |-> ty]
        unwrap(r) == record(r.w, IF r.some THEN r.ty ELSE Undef)
    IN unwrap(check_inner(w, node))

(***************************************************************************)
(* State.  phase is the position of type_check: "start", "walk" (inside    *)
(* TypeChecker::check on the root), "blocked" (the walking thread waits    *)
(* for a lock it holds itself), "none" / "done" (type_check returned None  *)
(* / Some(info)), "crashed" (a query ran out of stack).  def_use is what   *)
(* ctx.def_use(source) answered.  nstmt counts the statements walked.      *)
(* info is the TypeCheckInfo, cano the TypeCanoStore behind its mutex,     *)
(* mutex the thread holding it (0: free), thr the query threads, q the     *)
(* last query a sequential caller made.                                    *)
(***************************************************************************)
VARIABLES phase, def_use, nstmt, info, cano, mutex, thr, q

vars == <<phase, def_use, nstmt, info, cano, mutex, thr, q>>

Idle == [pc |-> "idle", ty |-> Undef, principal |-> FALSE, res |-> Undef]
NoQuery == [kind |-> "none", ty |-> Undef, principal |-> FALSE, out |-> "ok",
            res |-> Undef, sigs |-> <<>>, peer |-> Undef, before |-> <<>>,
            node |-> <<>>, joiner |-> Joiner, fed |-> <<>>, ctx |-> <<>>]

Init ==
    /\ phase = "start"
    /\ def_use = "unset"
    /\ nstmt = 0
    /\ info = EmptyInfo
    /\ cano = TypeCanoStore
    /\ mutex = 0
    /\ thr = [t \in Threads |-> Idle]
    /\ q = NoQuery

\* type_check (ty.rs:32-56) up to the call of check on the root
type_check ==
    /\ phase = "start"
    /\ \E d \in {"some", "none"} :
          /\ def_use' = d
          /\ phase' = IF d = "none" THEN "none" ELSE "walk"
    /\ UNCHANGED <<nstmt, info, cano, mutex, thr, q>>

\* type_check (ty.rs:48-55): check has returned, the info is handed out
type_check_return ==
    /\ phase = "walk"
    /\ phase' = "done"
    /\ UNCHANGED <<def_use, nstmt, info, cano, mutex, thr, q>>

(***************************************************************************)
(* The sources walked.  The root's children are checked one after another  *)
(* (check_children, ty.rs:273-280); each action below checks the next      *)
(* child, a statement drawn from a small family.  Spans of the statement's *)
(* nodes start at SpanBase; definition ids are handed out in order.        *)
(***************************************************************************)
SpanBase == nstmt * SpanStride
Defined == DOMAIN info.vars
NextDef == Cardinality(Defined) + 1

Walked(node) ==
    LET r == check(info, node)
    IN /\ info' = r.w
       /\ nstmt' = nstmt + 1
       /\ phase' = IF r.w.stuck THEN "blocked" ELSE "walk"
       /\ UNCHANGED <<def_use, cano, mutex, thr, q>>

CanWalk == phase = "walk" /\ nstmt < MaxStmts

Ident(s, x) == IdentNode(s, x, "")
Pos(e) == ArgNode("Pos", e.span, "", e)

\* an argument expression at span s: a literal, a variable, (x,)
ArgExprs(s) ==
    {IntNode(s, 2)} \cup {Ident(s, x) : x \in Defined}
        \cup {ArrayNode(s, <<Ident(s + 1, x)>>) : x \in Defined}

\* let x = e, binding a new definition; e may be an identifier nothing resolves
WalkLet ==
    /\ CanWalk
    /\ NextDef <= MaxVars
    /\ \E e \in {IntNode(SpanBase + 3, 1), Ident(SpanBase + 3, 0)}
                   \cup {Ident(SpanBase + 3, y) : y \in Defined} :
          Walked(LetBindingNode(SpanBase + 1, "Normal", "Ident",
                                SpanBase + 2, NextDef, <<e>>))

\* let x = 2 where the resolver answers with a definition it gave out before
WalkRebind ==
    /\ CanWalk
    /\ \E x \in Defined :
          Walked(LetBindingNode(SpanBase + 1, "Normal", "Ident",
                                SpanBase + 2, x, <<IntNode(SpanBase + 3, 2)>>))

\* let f() = 1, let f(_) = 1, let f(a) = body
WalkClosure ==
    /\ CanWalk
    /\ \/ /\ NextDef <= MaxVars
          /\ \E params \in {<<>>, <<ParamNode("Pos", "Placeholder", SpanBase + 4,
                                              0, "", IntNode(0, 0))>>} :
                Walked(LetBindingNode(SpanBase + 1, "Closure", "Ident",
                           SpanBase + 2, NextDef,
                           <<ClosureNode(SpanBase + 3, params,
                                         IntNode(SpanBase + 5, 1))>>))
       \/ /\ NextDef + 1 <= MaxVars
          /\ \E body \in {IntNode(SpanBase + 5, 1)}
                           \cup {Ident(SpanBase + 5, y) : y \in Defined \cup {NextDef}} :
                Walked(LetBindingNode(SpanBase + 1, "Closure", "Ident",
                           SpanBase + 2, NextDef + 1,
                           <<ClosureNode(SpanBase + 3,
                               <<ParamNode("Pos", "Ident", SpanBase + 4, NextDef,
                                           "", IntNode(0, 0))>>,
                               body)>>))

\* let f(a, b: 2) = a + b, and the same with body a or b
WalkClosureNamed ==
    /\ CanWalk
    /\ NextDef + 2 <= MaxVars
    /\ \E body \in {BinaryNode(SpanBase + 7, "+", Ident(SpanBase + 8, NextDef),
                                Ident(SpanBase + 9, NextDef + 1)),
                    Ident(SpanBase + 7, NextDef), Ident(SpanBase + 7, NextDef + 1)} :
          Walked(LetBindingNode(SpanBase + 1, "Closure", "Ident",
                     SpanBase + 2, NextDef + 2,
                     <<ClosureNode(SpanBase + 3,
                         <<ParamNode("Pos", "Ident", SpanBase + 4, NextDef,
                                     "", IntNode(0, 0)),
                           ParamNode("Named", "Ident", SpanBase + 5, NextDef + 1,
                                     "b", IntNode(SpanBase + 6, 2))>>,
                         body)>>))

\* f(), f(e)
WalkCall ==
    /\ CanWalk
    /\ \E f \in Defined :
       \E items \in {<<>>} \cup {<<Pos(e)>> : e \in ArgExprs(SpanBase + 4)} :
          Walked(FuncCallNode(SpanBase + 1, Ident(SpanBase + 2, f),
                              ArgsNode(SpanBase + 3, items)))

\* let g = f.with(), let g = f.with(1)
WalkWith ==
    /\ CanWalk
    /\ NextDef <= MaxVars
    /\ \E f \in Defined :
       \E items \in {<<>>, <<Pos(IntNode(SpanBase + 7, 1))>>} :
          Walked(LetBindingNode(SpanBase + 1, "Normal", "Ident", SpanBase + 2, NextDef,
                    <<FuncCallNode(SpanBase + 3,
                          FieldAccessNode(SpanBase + 4, Ident(SpanBase + 5, f), "with"),
                          ArgsNode(SpanBase + 6, items))>>))

\* calls of library functions: rgb(1), rect(rgb(1)), rect(fill: rgb(1)),
\* rect(<alias>: (<name>: 1, <name>: 2))
WalkRuntime ==
    /\ CanWalk
    /\ LET rgb == FuncCallNode(SpanBase + 4, IdentNode(SpanBase + 5, 0, "rgb"),
                      ArgsNode(SpanBase + 6, <<Pos(IntNode(SpanBase + 7, 1))>>))
           dict(n1, n2) ==
               DictNode(SpanBase + 5,
                   <<NamedNode(SpanBase + 6, n1, IntNode(SpanBase + 7, 1))>>
                   \o (IF n2 = "" THEN <<>>
                       ELSE <<NamedNode(SpanBase + 8, n2, IntNode(SpanBase + 9, 2))>>))
           rect(items) ==
               FuncCallNode(SpanBase + 1, IdentNode(SpanBase + 2, 0, "rect"),
                            ArgsNode(SpanBase + 3, items))
       IN \/ Walked([rgb EXCEPT !.span = SpanBase + 1])
          \/ Walked(rect(<<Pos(rgb)>>))
          \/ \E a \in {"stroke", "inset"}, n1 \in {"paint", "top"}, n2 \in {"", "foo"} :
                Walked(rect(<<ArgNode("Named", SpanBase + 4, a, dict(n1, n2))>>))

\* let y = (x, x), let y = (x, ..x), let y = (k: x)
WalkAggregate ==
    /\ CanWalk
    /\ NextDef <= MaxVars
    /\ \E x \in Defined :
       \E e \in {ArrayNode(SpanBase + 3, <<Ident(SpanBase + 4, x), Ident(SpanBase + 5, x)>>),
                 ArrayNode(SpanBase + 3, <<Ident(SpanBase + 4, x),
                                           SpreadNode(SpanBase + 5, Ident(SpanBase + 6, x))>>),
                 DictNode(SpanBase + 3,
                          <<NamedNode(SpanBase + 4, "k", Ident(SpanBase + 5, x))>>)} :
          Walked(LetBindingNode(SpanBase + 1, "Normal", "Ident",
                                SpanBase + 2, NextDef, <<e>>))

\* x = 2, x == 2
WalkAssign ==
    /\ CanWalk
    /\ \E x \in Defined, op \in {"=", "=="} :
          Walked(BinaryNode(SpanBase + 1, op, Ident(SpanBase + 2, x),
                            IntNode(SpanBase + 3, 2)))

Next ==
    \/ type_check
    \/ WalkLet \/ WalkRebind \/ WalkClosure \/ WalkCall \/ WalkWith
    \/ WalkRuntime \/ WalkAssign
    \/ type_check_return

Spec == Init /\ [][Next]_vars

(***************************************************************************)
(* A query on the returned info by one caller: TypeCheckInfo::simplify or  *)
(* FlowType::signatures, a whole call (lock, clear, work, unlock).  The    *)
(* types asked about are the variables and the partial applications among  *)
(* their bounds.  Sequences of calls are the subject of SpecConc.          *)
(***************************************************************************)
BoundsOf(vs) ==
    UNION {{vs[x].lbs[i] : i \in 1..Len(vs[x].lbs)}
           \cup {vs[x].ubs[i] : i \in 1..Len(vs[x].ubs)} : x \in DOMAIN vs}

QueryTypes == {Var(x) : x \in Defined} \cup {b \in BoundsOf(info.vars) : b.k = "With"}

Answered(kind, ty, principal, r) ==
    /\ q' = [NoQuery EXCEPT !.kind = kind, !.ty = ty, !.principal = principal,
                            !.out = r.out,
                            !.res = IF kind = "simplify" THEN r.ty ELSE Undef,
                            !.sigs = IF kind = "signatures" THEN r.sigs ELSE <<>>]
    /\ cano' = r.c
    /\ phase' = IF r.out = "overflow" THEN "crashed" ELSE "done"
    /\ UNCHANGED <<def_use, nstmt, info, mutex, thr>>

Simplify ==
    /\ phase = "done" /\ mutex = 0 /\ q.kind = "none"
    /\ \E ty \in QueryTypes, principal \in BOOLEAN :
          Answered("simplify", ty, principal, simplify(ty, principal, cano, info.vars))

Signatures ==
    /\ phase = "done" /\ mutex = 0 /\ q.kind = "none"
    /\ \E ty \in QueryTypes, principal \in BOOLEAN :
          Answered("signatures", ty, principal, signatures(ty, cano, info.vars, principal))

NextQuery ==
    \/ type_check
    \/ WalkLet \/ WalkClosure \/ WalkCall \/ WalkWith \/ WalkAssign
    \/ WalkAggregate \/ WalkClosureNamed
    \/ type_check_return
    \/ Simplify
    \/ Signatures

SpecQuery == Init /\ [][NextQuery]_vars

(***************************************************************************)
(* TypeCheckInfo::simplify (ty.rs:67-86) called from several threads on    *)
(* the shared info, one step per statement group: cano_cache.lock(), the   *)
(* three clear() calls, worker.simplify, and the return that drops the     *)
(* guard.                                                                  *)
(***************************************************************************)
simplify_lock(t) ==
    /\ phase = "done" /\ thr[t].pc = "idle" /\ mutex = 0
    /\ \E ty \in QueryTypes, principal \in BOOLEAN :
          thr' = [thr EXCEPT ![t] = [pc |-> "locked", ty |-> ty,
                                     principal |-> principal, res |-> Undef]]
    /\ mutex' = t
    /\ UNCHANGED <<phase, def_use, nstmt, info, cano, q>>

simplify_clear(t) ==
    /\ thr[t].pc = "locked" /\ mutex = t
    /\ cano' = clear_cache(cano)
    /\ thr' = [thr EXCEPT ![t].pc = "cleared"]
    /\ UNCHANGED <<phase, def_use, nstmt, info, mutex, q>>

Worked(t, r) ==
    /\ cano' = r.c
    /\ thr' = [thr EXCEPT ![t].pc = "worked", ![t].res = r.ty]
    /\ phase' = IF r.out = "overflow" THEN "crashed" ELSE phase
    /\ UNCHANGED <<def_use, nstmt, info, mutex, q>>

simplify_worker(t) ==
    /\ phase = "done" /\ thr[t].pc = "cleared" /\ mutex = t
    /\ Worked(t, worker_simplify(thr[t].ty, thr[t].principal, cano, info.vars))

simplify_return(t) ==
    /\ phase = "done" /\ thr[t].pc = "worked" /\ mutex = t
    /\ mutex' = 0
    /\ thr' = [thr EXCEPT ![t].pc = "returned"]
    /\ UNCHANGED <<phase, def_use, nstmt, info, cano, q>>

\* the caller drops the result and is ready for its next call
simplify_caller(t) ==
    /\ thr[t].pc = "returned"
    /\ thr' = [thr EXCEPT ![t] = Idle]
    /\ UNCHANGED <<phase, def_use, nstmt, info, cano, mutex, q>>

NextConc ==
    \/ type_check
    \/ (nstmt < MaxConcStmts /\ WalkLet)
    \/ (nstmt < MaxConcStmts /\ WalkClosure)
    \/ (nstmt < MaxConcStmts /\ WalkAssign)
    \/ type_check_return
    \/ \E t \in Threads :
          \/ simplify_lock(t)
          \/ simplify_clear(t)
          \/ simplify_worker(t)
          \/ simplify_return(t)
          \/ simplify_caller(t)

SpecConc == Init /\ [][NextConc]_vars

(***************************************************************************)
(* TypeChecker::constrain (ty.rs:797-934) on its own: the walker posts one *)
(* constraint lhs <= rhs on the table built so far.  The two sides are     *)
(* drawn from variables, literals (with a span that has no entry yet, with *)
(* the span of the first binding's name, which has one, or detached),      *)
(* dicts (with fields defined at fresh spans, at the span of the first     *)
(* binding's name, or detached; one has the newest variable as a field's   *)
(* type), builtins, and the unions of two of these.  q keeps the two       *)
(* sides and the table before the call.                                    *)
(***************************************************************************)
UnionArms ==
    {Var(x) : x \in Defined}
        \cup {Value(IntVal(1), SpanBase + 1), Value(IntVal(2), SpanBase + 2),
              Builtin("Stroke")}

ConstrainTypes ==
    UnionArms
        \cup {Value(IntVal(1), 2), Value(IntVal(1), Detached), Builtin("Color"), Content,
              Dict(<<Field("paint", Value(IntVal(1), SpanBase + 4), SpanBase + 3)>>),
              Dict(<<Field("top", Content, SpanBase + 5),
                     Field("paint", Builtin("Color"), 2)>>),
              Dict(<<Field("left", Value(IntVal(2), SpanBase + 8), Detached)>>)}
        \cup {Dict(<<Field("paint", Var(x), SpanBase + 6),
                     Field("left", Content, SpanBase + 7)>>) :
                 x \in {y \in Defined : y + 1 = NextDef}}
        \cup {Union(<<a, b>>) : a, b \in UnionArms}

Constrained(lhs, rhs, w) ==
    /\ info' = w
    /\ q' = [NoQuery EXCEPT !.kind = "constrain", !.ty = lhs, !.peer = rhs,
                            !.before = <<info>>]
    /\ phase' = IF w.stuck THEN "blocked" ELSE "walk"
    /\ UNCHANGED <<def_use, nstmt, cano, mutex, thr>>

Constrain ==
    /\ phase = "walk" /\ q.kind = "none"
    /\ \E lhs \in ConstrainTypes, rhs \in ConstrainTypes :
          Constrained(lhs, rhs, constrain(info, lhs, rhs))

NextConstrain ==
    \/ type_check
    \/ (q.kind = "none" /\ nstmt < MaxConcStmts /\ WalkLet)
    \/ Constrain
    \/ type_check_return

SpecConstrain == Init /\ [][NextConstrain]_vars

(***************************************************************************)
(* The walker on containers and operators.  After some bindings the next   *)
(* child of the root is checked and q keeps the node, the type check       *)
(* returned and the table before: a container with up to MaxChildren       *)
(* leaves (WalkChildren), mode-bearing nodes around identifiers the        *)
(* def-use resolver leaves to the library (WalkModes), an assignment or    *)
(* an equality (WalkBinary), a closure whose body names the closure        *)
(* (WalkSelf).  JoinerDefault and JoinerJoin are a Joiner on its own, fed  *)
(* with child types one at a time.                                         *)
(***************************************************************************)
Noted(node) ==
    LET r == check(info, node)
    IN /\ info' = r.w
       /\ nstmt' = nstmt + 1
       /\ q' = [NoQuery EXCEPT !.kind = "check", !.node = <<node>>, !.res = r.ty,
                               !.before = <<info>>]
       /\ phase' = IF r.w.stuck THEN "blocked" ELSE "walk"
       /\ UNCHANGED <<def_use, cano, mutex, thr>>

\* the sequences of leaves, one span each, of length 1..n; a leaf at span s
\* is whitespace, text, punctuation, a control exit (the statement and the
\* keyword), auto, a literal or a variable
RECURSIVE LeafSeqs(_)
LeafSeqs(n) ==
    IF n = 0 THEN {<<>>}
    ELSE LET shorter == LeafSeqs(n - 1)
             Leaves(s) ==
                 {LeafNode(k, s) : k \in {"Space", "Text", "Hash", "LoopBreak",
                                          "FuncReturn", "Break", "Auto"}}
                     \cup {IntNode(s, 1)} \cup {Ident(s, x) : x \in Defined}
         IN shorter \cup {Append(c, l) : c \in {d \in shorter : Len(d) = n - 1},
                                          l \in Leaves(SpanBase + 1 + n)}

\* *a b c*: a container whose type is the join of its children
WalkChildren ==
    /\ phase = "walk" /\ q.kind = "none"
    /\ \E children \in LeafSeqs(MaxChildren) \ {<<>>} :
          Noted(ContainerNode("Strong", SpanBase + 1, children))

\* identifiers of the library at the root, inside one mode-bearing node,
\* and after a nested one: $x$, $#x$, {x}, [$x$ #x], ...
ModeKinds == {"Markup", "Math", "Code", "CodeBlock", "ContentBlock"}

\* the identifiers the parser gives a child of a node of kind k: MathIdent
\* for a name written in an equation, Ident for #name and for code
LibraryIdents(k, s) ==
    {IdentNode(s, 0, n) : n \in {"rgb", "sqrt"}}
        \cup (IF k = "Math" THEN {MathIdentNode(s, 0, n) : n \in {"rgb", "sqrt"}}
              ELSE {})

WalkModes ==
    /\ phase = "walk" /\ q.kind = "none"
    /\ \/ \E a \in LibraryIdents("Markup", SpanBase + 1) : Noted(a)
       \/ \E k \in ModeKinds :
          \E a \in LibraryIdents(k, SpanBase + 2) :
             Noted(ContainerNode(k, SpanBase + 1, <<a>>))
       \/ \E k1 \in ModeKinds, k2 \in ModeKinds :
          \E a \in LibraryIdents(k2, SpanBase + 3), b \in LibraryIdents(k1, SpanBase + 4) :
             Noted(ContainerNode(k1, SpanBase + 1,
                       <<ContainerNode(k2, SpanBase + 2, <<a>>), b>>))

\* l = r, l == r with a literal, a variable or (x,) on either side, not two
\* literals
WalkBinary ==
    /\ phase = "walk" /\ q.kind = "none"
    /\ \E op \in {"=", "=="} :
       \E l \in ArgExprs(SpanBase + 2), r \in ArgExprs(SpanBase + 4) :
          /\ ~(l.kind = "Int" /\ r.kind = "Int")
          /\ Noted(BinaryNode(SpanBase + 1, op, l, r))

\* let f() = f: the body is checked before the binding's variable exists
WalkSelf ==
    /\ phase = "walk" /\ q.kind = "none"
    /\ NextDef <= MaxVars
    /\ Noted(LetBindingNode(SpanBase + 1, "Closure", "Ident", SpanBase + 2, NextDef,
                <<ClosureNode(SpanBase + 3, <<>>, Ident(SpanBase + 5, NextDef))>>))

\* let mut joiner = Joiner::default() (ty.rs:274)
JoinerDefault ==
    /\ phase = "walk" /\ q.kind = "none"
    /\ q' = [NoQuery EXCEPT !.kind = "join"]
    /\ UNCHANGED <<phase, def_use, nstmt, info, cano, mutex, thr>>

\* joiner.join(child) (ty.rs:277)
JoinerJoin ==
    /\ phase = "walk" /\ q.kind = "join"
    /\ Len(q.fed) < MaxChildren
    /\ LET \* the types a child of a container can have
           JoinTypes ==
               {Clause, Undef, Any, Infer, None, FlowNone, Content, Auto,
                Value(IntVal(1), SpanBase + 1), Tuple(<<>>)}
                   \cup {Var(x) : x \in Defined}
       IN \E child \in JoinTypes :
             q' = [q EXCEPT !.joiner = join(@, child), !.fed = Append(@, child)]
    /\ UNCHANGED <<phase, def_use, nstmt, info, cano, mutex, thr>>

NextTree ==
    \/ type_check
    \/ (q.kind = "none" /\ nstmt < MaxConcStmts /\ WalkLet)
    \/ WalkChildren \/ WalkModes \/ WalkBinary \/ WalkSelf
    \/ JoinerDefault \/ JoinerJoin
    \/ type_check_return

SpecTree == Init /\ [][NextTree]_vars

(***************************************************************************)
(* Completion (upstream/complete/ext.rs).  A string is the sequence of its *)
(* bytes, an Option a sequence of length 0 or 1.  A Completion keeps its   *)
(* label and its sort_text.  The CompletionContext keeps completions,      *)
(* completions2, seen_casts and explicit; paths is the number of files     *)
(* complete_path finds and code what complete_code adds when it is asked.  *)
(* Kept beside them: explicit0, the value explicit had when the request    *)
(* came in; casts, the inputs handed to cast_completions; asked, the       *)
(* positional parameters put to type_completion with what it returned;     *)
(* ncode, how many completions complete_code added; sorted, whether the    *)
(* request reached sort_and_explicit_code_completion.  snippet_completion, *)
(* cast_completions, complete_code and the scope lookups are not part of   *)
(* ext.rs: a snippet is one more completion with its label, a cast is      *)
(* logged, the scope holds no value of a completed type.                   *)
(***************************************************************************)
Completion(label) == [label |-> label, sort_text |-> <<>>]

CompletionContext(explicit, paths, code) ==
    [completions |-> <<>>, completions2 |-> <<>>, seen_casts |-> {},
     explicit |-> explicit, paths |-> paths, code |-> code,
     explicit0 |-> explicit, casts |-> <<>>, asked |-> <<>>, ncode |-> 0,
     sorted |-> FALSE]

\* format!("{i:0>w$}"), format!("{i:03}"): the decimal digits of i, zeros on
\* the left up to the width w, nothing cut when i has more digits
format_pad(i, w) ==
    LET RECURSIVE to_string(_)
        to_string(n) == IF n < 10 THEN <<48 + n>>
                        ELSE Append(to_string(n \div 10), 48 + (n % 10))
        s == to_string(i)
    IN [k \in 1..(IF Len(s) < w THEN w - Len(s) ELSE 0) |-> 48] \o s

\* a < b for str: the bytes compared from the left, a proper prefix first
str_lt(a, b) ==
    \E k \in 1..Len(b) :
       /\ k - 1 <= Len(a)
       /\ \A j \in 1..(k - 1) : a[j] = b[j]
       /\ (k > Len(a) \/ a[k] < b[k])

RECURSIVE type_completion(_, _), type_completion_each(_, _)
type_completion(ctx, infer_type) ==
    IF infer_type \in ctx.seen_casts
    THEN [ctx |-> ctx, ret |-> "Some"]
    ELSE LET c == [ctx EXCEPT !.seen_casts = @ \cup {infer_type}]
             none == [ctx |-> c, ret |-> "None"]
             some(x) == [ctx |-> x, ret |-> "Some"]
             \* ctx.snippet_completion(label, ..) for each label
             snippets(x, labels) ==
                 [x EXCEPT !.completions =
                     @ \o [i \in 1..Len(labels) |-> Completion(labels[i])]]
             \* the tail of complete_path (ext.rs:1021-1049): the n files
             \* found, numbered in order with as many digits as n has
             complete_path(n) ==
                 [sorter \in 1..n |->
                     [label |-> <<102>> \o format_pad(sorter, 0),
                      sort_text |-> <<format_pad(sorter - 1, Len(format_pad(n, 0)))>>]]
             \* the key of the i-th entry of rust_iso639::ALL_MAP, lower
             \* case; a hash map does not list its entries in key order
             lang(i) ==
                 LET n == LangCodes - i
                 IN Completion(<<97 + ((n \div 676) % 26), 97 + ((n \div 26) % 26),
                                 97 + (n % 26)>>)
         IN IF infer_type = <<>> THEN none
            ELSE LET ty == infer_type[1]
                 IN CASE ty.k \in {"Clause", "Undef", "Content", "Any", "Infer", "FlowNone",
                                   "Args", "Func", "With", "At", "Var", "Unary", "Binary",
                                   "If"} -> none
                      [] ty.k \in {"Tuple", "Array", "Dict"} ->
                            some(snippets(c, << <<40, 41>> >>))                 \* ()
                      [] ty.k = "None" ->
                            some(snippets(c, << <<110, 111, 110, 101>> >>))     \* none
                      [] ty.k = "Auto" ->
                            some(snippets(c, << <<97, 117, 116, 111>> >>))      \* auto
                      [] ty.k = "Boolean" ->                                    \* false, true
                            some(snippets(c, << <<102, 97, 108, 115, 101>>,
                                                <<116, 114, 117, 101>> >>))
                      [] ty.k = "Builtin" ->
                            CASE ty.b \in {"Args", "TextSize"} -> none
                              [] ty.b = "Path" ->
                                    some([c EXCEPT !.completions2 = @ \o complete_path(c.paths)])
                              [] ty.b = "Stroke" ->                             \* stroke(), ()
                                    some(type_completion_each(
                                        snippets(c, << <<115, 116, 114, 111, 107, 101, 40, 41>>,
                                                       <<40, 41>> >>),
                                        <<Builtin("Color"), Builtin("Length")>>))
                              [] ty.b = "Color" ->
                                    \* luma(), rgb(), cmyk(), oklab(), oklch(),
                                    \* color.linear-rgb(), color.hsv(), color.hsl()
                                    some(snippets(c, <<
                                        <<108, 117, 109, 97, 40, 41>>,
                                        <<114, 103, 98, 40, 41>>,
                                        <<99, 109, 121, 107, 40, 41>>,
                                        <<111, 107, 108, 97, 98, 40, 41>>,
                                        <<111, 107, 108, 99, 104, 40, 41>>,
                                        <<99, 111, 108, 111, 114, 46, 108, 105, 110, 101, 97,
                                          114, 45, 114, 103, 98, 40, 41>>,
                                        <<99, 111, 108, 111, 114, 46, 104, 115, 118, 40, 41>>,
                                        <<99, 111, 108, 111, 114, 46, 104, 115, 108, 40, 41>> >>))
                              [] ty.b = "TextLang" ->
                                    some([c EXCEPT !.completions =
                                             @ \o [i \in 1..LangCodes |-> lang(i)]])
                              [] ty.b \in {"Margin", "Inset", "Outset", "Radius"} ->
                                    some(type_completion_each(
                                        snippets(c, << <<40, 41>> >>), <<Builtin("Length")>>))
                              [] ty.b = "Length" ->                             \* pt, mm, cm, in, em
                                    some(type_completion_each(
                                        snippets(c, << <<112, 116>>, <<109, 109>>, <<99, 109>>,
                                                       <<105, 110>>, <<101, 109>> >>),
                                        <<Auto>>))
                              [] OTHER -> some(c)
                      [] ty.k = "Union" -> some(type_completion_each(c, ty.elems))
                      [] ty.k = "Let" -> some(type_completion_each(c, ty.ubs \o ty.lbs))
                      [] OTHER -> some(c)

\* type_completion(ctx, Some(ty), docs) for each ty in turn, the results dropped
type_completion_each(ctx, tys) ==
    IF tys = <<>> THEN ctx
    ELSE type_completion_each(type_completion(ctx, <<Head(tys)>>).ctx, Tail(tys))

\* if type_completion(ctx, param.infer_type.as_ref(), ..).is_none() {
\*     ctx.cast_completions(&param.input) }
type_or_cast(ctx, param) ==
    LET r == type_completion(ctx, param.infer_type)
        c == [r.ctx EXCEPT !.asked = Append(@, [name |-> param.name,
                                                 infer_type |-> param.infer_type,
                                                 ret |-> r.ret,
                                                 cast |-> r.ret = "None"])]
    IN IF r.ret = "None" THEN [c EXCEPT !.casts = Append(@, param.name)] ELSE c

sort_and_explicit_code_completion(ctx) ==
    LET \* Less of a.sort_text.cmp(b.sort_text).then_with(|| a.label.cmp(b.label));
        \* None is below every Some
        less(a, b) ==
            IF a.sort_text # b.sort_text
            THEN a.sort_text = <<>>
                    \/ (b.sort_text # <<>> /\ str_lt(a.sort_text[1], b.sort_text[1]))
            ELSE str_lt(a.label, b.label)
        explict == ctx.explicit
        \* complete_code(ctx) with explicit set, on the emptied list
        coded == [ctx EXCEPT !.completions = ctx.code, !.explicit = TRUE]
        \* sort_by: a stable sort; what goes before the middle element,
        \* what compares equal to it in the order it came, what goes after
        RECURSIVE sort_by(_)
        sort_by(s) ==
            IF Len(s) <= 1 THEN s
            ELSE LET p == s[(Len(s) + 1) \div 2]
                     before(x) == less(x, p)
                     same(x) == ~less(x, p) /\ ~less(p, x)
                     after(x) == less(p, x)
                 IN sort_by(SelectSeq(s, before)) \o SelectSeq(s, same)
                        \o sort_by(SelectSeq(s, after))
        completions == sort_by(ctx.completions)
        rest == sort_by(coded.completions)
        sort_base == Len(ctx.completions2)
        numbered(s, base) ==
            [i \in 1..Len(s) |-> [s[i] EXCEPT !.sort_text = <<format_pad(base + i - 1, 3)>>]]
    IN [coded EXCEPT !.explicit = explict,
                     !.completions2 = numbered(@, 0),
                     !.completions = numbered(rest, sort_base + Len(completions))
                                         \o numbered(completions, sort_base),
                     !.ncode = Len(rest),
                     !.sorted = TRUE]

\* the request: explicit or not, files beside the document, what the scope
\* offers to complete_code (nothing; x and a)
Requests ==
    {CompletionContext(e, p, IF e THEN <<>> ELSE <<Completion(<<120>>), Completion(<<97>>)>>) :
        e \in BOOLEAN, p \in {0, MaxPaths}}

\* param_completions (ext.rs:249-411): the cursor is in the argument list of
\* a call of f(body, fill: .., size: ..)
param_completions ==
    /\ q.kind = "none"
    /\ \E ctx \in Requests :
          \* resolve_call_target does not find the callee
          \/ q' = [NoQuery EXCEPT !.kind = "param_completions", !.ctx = <<ctx>>]
          \/ LET param(name, positional, named, settable, infer_type) ==
                     [name |-> name, positional |-> positional, named |-> named,
                      settable |-> settable, infer_type |-> infer_type]
                 fill(p, n, t) == param(<<102, 105, 108, 108>>, p, n, TRUE, t)
                 size(p, t) == param(<<115, 105, 122, 101>>, p, TRUE, FALSE, t)
                 Named ==
                     {<<>>}
                       \cup {<<fill(p, n, t)>> :
                                 p \in BOOLEAN, n \in BOOLEAN,
                                 t \in {<<>>, <<Any>>, <<Builtin("Dir")>>}}
                       \cup {<<fill(TRUE, TRUE, t), size(p, u)>> :
                                 p \in BOOLEAN, t \in {<<>>, <<Any>>},
                                 u \in {<<>>, <<Any>>, <<Builtin("TextSize")>>}}
                 \* the infer_type of body: absent, or a type of the checker
                 InferTypes ==
                     {<<>>, <<Any>>, <<Content>>, <<Builtin("Length")>>, <<Builtin("Path")>>,
                      <<Union(<<None, Builtin("Stroke")>>)>>}
                 \* pos_index, and the parameter types of type_sig at it
                 Cursors == {<< <<>>, <<>> >>, << <<0>>, <<>> >>, << <<0>>, <<Auto>> >>,
                             << <<1>>, <<>> >>}
             IN \E set \in BOOLEAN, cursor \in Cursors,
                   exclude \in SUBSET {<<102, 105, 108, 108>>},
                   posty \in InferTypes,
                   flags \in {<<TRUE, TRUE>>, <<TRUE, FALSE>>, <<FALSE, TRUE>>},
                   named \in Named :
                   LET pos_index == cursor[1]
                       type_sig == cursor[2]
                       \* primary_sig.pos
                       pos == <<param(<<98, 111, 100, 121>>, flags[1], FALSE, flags[2], posty)>>
                       at == IF pos_index # <<>> /\ pos_index[1] < Len(pos)
                             THEN <<pos[pos_index[1] + 1]>> ELSE <<>>
                       returns == at # <<>> /\ set /\ ~at[1].settable
                       c1 == IF at # <<>> /\ at[1].positional
                             THEN type_or_cast(ctx, at[1]) ELSE ctx
                       c2 == type_completion_each(c1, type_sig)
                       templates(p) ==
                           CASE p.infer_type = <<Builtin("TextSize")>> ->
                                   \* 10.5pt 12pt 9pt 14pt 8pt 16pt 18pt 20pt 22pt 24pt 28pt
                                   << <<49, 48, 46, 53, 112, 116>>, <<49, 50, 112, 116>>,
                                      <<57, 112, 116>>, <<49, 52, 112, 116>>, <<56, 112, 116>>,
                                      <<49, 54, 112, 116>>, <<49, 56, 112, 116>>,
                                      <<50, 48, 112, 116>>, <<50, 50, 112, 116>>,
                                      <<50, 52, 112, 116>>, <<50, 56, 112, 116>> >>
                             [] p.infer_type = <<Builtin("Dir")>> ->
                                   \* ltr rtl ttb btt
                                   << <<108, 116, 114>>, <<114, 116, 108>>, <<116, 116, 98>>,
                                      <<98, 116, 116>> >>
                             [] OTHER -> <<>>
                       pushed(c, p) ==
                           IF p.named
                           THEN [c EXCEPT !.completions =
                                    (@ \o [i \in 1..Len(templates(p)) |->
                                              Completion(p.name \o <<58, 32>> \o templates(p)[i])])
                                       \o <<Completion(p.name)>>]
                           ELSE c
                       RECURSIVE each(_, _)
                       each(c, ps) ==
                           IF ps = <<>> THEN c
                           ELSE LET p == Head(ps)
                                IN IF p.name \in exclude \/ (set /\ ~p.settable)
                                   THEN each(c, Tail(ps))
                                   ELSE each(IF p.positional THEN type_or_cast(pushed(c, p), p)
                                             ELSE pushed(c, p), Tail(ps))
                   IN q' = [NoQuery EXCEPT
                              !.kind = "param_completions",
                              !.ctx = <<IF returns THEN ctx
                                        ELSE sort_and_explicit_code_completion(each(c2, named))>>]
    /\ UNCHANGED <<phase, def_use, nstmt, info, cano, mutex, thr>>

\* named_param_value_completions (ext.rs:650-753): the cursor is behind
\* "lang:" in the argument list of a call; ty is the type the checker has
\* for the argument, the other inputs are the parameter's entry in the
\* signature of the callee.  text(lang: ..) is a function of the library:
\* no type_sig, no default expression
named_param_value_completions ==
    /\ q.kind = "none"
    /\ \E ctx \in Requests, ty \in {<<>>, <<Boolean("none")>>} :
          LET c1 == type_completion_each(ctx, ty)
          IN \* resolve_call_target does not find the callee
             \/ q' = [NoQuery EXCEPT !.kind = "named_param_value_completions",
                                     !.ctx = <<c1>>]
             \* no such parameter, or not a named one
             \/ q' = [NoQuery EXCEPT !.kind = "named_param_value_completions",
                                     !.ctx = <<ctx>>]
             \/ \E type_sig \in {<<>>, <<Auto>>},
                   infer_type \in {<<>>, <<Any>>, <<Boolean("none")>>,
                                   <<Builtin("TextLang")>>},
                   expr \in {<<>>, <<Completion(<<108, 117, 109, 97, 40, 48, 37, 41>>)>>} :
                   LET param == [name |-> <<108, 97, 110, 103>>, infer_type |-> infer_type]
                       c2 == type_completion_each(c1, type_sig)
                       completed == type_sig # <<>>
                       c3 == IF ~completed THEN [c2 EXCEPT !.completions = @ \o expr]
                             ELSE c2
                   IN /\ infer_type = <<Builtin("TextLang")>> =>
                             ctx.paths = 0 /\ ty = <<>> /\ type_sig = <<>> /\ expr = <<>>
                      /\ q' = [NoQuery EXCEPT
                                 !.kind = "named_param_value_completions",
                                 !.ctx = <<sort_and_explicit_code_completion(
                                               type_or_cast(c3, param))>>]
    /\ UNCHANGED <<phase, def_use, nstmt, info, cano, mutex, thr>>

NextComplete == param_completions \/ named_param_value_completions

SpecComplete == Init /\ [][NextComplete]_vars

(***************************************************************************)
(* Properties.                                                             *)
(***************************************************************************)

\* C1: every simplify call terminates, on every variable table the walk can
\* build (cyclic ones included): no call re-enters an analyze frame that is
\* still on its stack, which would recurse without end.
C1_SimplifyTerminates == q.kind = "simplify" => q.out = "ok"

\* C2: simplify is idempotent: simplifying the result of a simplify call
\* again, with the same flag and over the same table, gives that result back.
C2_SimplifyIdempotent ==
    (q.kind = "simplify" /\ q.out = "ok") =>
        LET twice(r) == r.out = "ok" => r.ty = q.res
        IN twice(simplify(q.res, q.principal, cano, info.vars))

\* C3: type_check returns None exactly when the def-use resolver has no info
\* for the source; otherwise the walk goes on to its end and never stops
\* half way: it is never stuck inside a statement.
C3_WalkCompletes ==
    /\ (phase = "none") <=> (def_use = "none")
    /\ def_use = "some" => phase \in {"walk", "done"}

IsPrefix(a, b) == Len(a) <= Len(b) /\ SubSeq(b, 1, Len(a)) = a

\* C4: in every step of the walk each existing variable keeps its FlowVar
\* (same store) and its previous lbs and ubs are prefixes of the new ones.
C4_BoundsOnlyAppended ==
    [][\A x \in DOMAIN info.vars :
          /\ x \in DOMAIN info'.vars
          /\ info'.vars[x].store = info.vars[x].store
          /\ IsPrefix(info.vars[x].lbs, info'.vars[x].lbs)
          /\ IsPrefix(info.vars[x].ubs, info'.vars[x].ubs)]_vars

\* a variable bound by two let statements (get_var met the id twice) that
\* has collected two lower bounds
C4_Witness ==
    \E x \in DOMAIN info.vars :
        /\ Len(info.vars[x].lbs) >= 2
        /\ Cardinality({s \in DOMAIN info.mapping :
                           info.mapping[s] = Var(x) /\ s % SpanStride = 2}) >= 2

\* C5: the mapping entry written by check at a FuncCall span is never
\* replaced later in the walk: it still holds what check recorded.
C5_CallEntryWrittenOnce ==
    \A s \in DOMAIN info.recorded :
        s \in DOMAIN info.mapping /\ info.mapping[s] = info.recorded[s]

RECURSIVE TotalPositional(_)
TotalPositional(applied) ==
    IF applied = <<>> THEN 0
    ELSE Len(Head(applied).args) + TotalPositional(Tail(applied))

Max(a, b) == IF a >= b THEN a ELSE b

\* C6: every signature extracted from With(f, applied) has max(n - k, 0)
\* positional parameters, n the positional parameters of f and k the
\* positional arguments in all applied bundles together.
C6_WithArity ==
    (q.kind = "signatures" /\ q.out = "ok" /\ q.ty.k = "With" /\ q.ty.callee.k = "Func") =>
        \A i \in 1..Len(q.sigs) :
            Len(q.sigs[i].pos) =
                Max(Len(q.ty.callee.pos) - TotalPositional(q.ty.applied), 0)

\* C7: a call whose callee is a variable bound to a partial application
\* f.with(a) has f's return type among its candidates.
C7_WithCalleeReturns ==
    \A i \in 1..Len(info.calls) :
        LET c == info.calls[i] IN
        c.callee.k = "Var" =>
            \A b \in BoundsOf([x \in {c.callee.id} |-> info.vars[c.callee.id]]) :
                (b.k = "With" /\ b.callee.k = "Func") =>
                    \E j \in 1..Len(c.cands) : c.cands[j] = b.callee.ret

InCall(t) == thr[t].pc \in {"locked", "cleared", "worked"}

\* C8: simplify calls are isolated: at most one thread is inside the locked
\* part, and the result of every call, whatever ran before it or waits
\* beside it, is the result of the same call on a fresh cache.
C8_SimplifyIsolated ==
    /\ \A t1, t2 \in Threads : (InCall(t1) /\ InCall(t2)) => t1 = t2
    /\ \A t \in Threads :
          thr[t].pc \in {"worked", "returned"} =>
              thr[t].res = simplify(thr[t].ty, thr[t].principal,
                                    TypeCanoStore, info.vars).ty

\* a call has returned a composite result while another thread, having
\* worked on the shared cache after it, is still inside its own call
C8_Witness ==
    \E t1, t2 \in Threads :
        /\ t1 # t2
        /\ thr[t1].pc = "returned" /\ thr[t1].res.k \in {"Let", "Func"}
        /\ thr[t2].pc = "worked" /\ thr[t2].res.k \in {"Let", "Func", "Value"}
        /\ cano.cano_local_cache # <<>>

(***************************************************************************)
(* Refines(p, n): every bound that p shows at a position is shown by n at  *)
(* the same position.  Any shows no bound; a Let shows its lbs and ubs; a  *)
(* type returned in place of a variable is the variable's only bound.      *)
(***************************************************************************)
RECURSIVE Refines(_, _)
Refines(p, n) ==
    LET all(ps, ns) == Len(ps) = Len(ns) /\ \A i \in 1..Len(ps) : Refines(ps[i], ns[i])
        some(b, ns) == \E j \in 1..Len(ns) : Refines(b, ns[j])
    IN IF p = n \/ p.k = "Any" THEN TRUE
       ELSE IF p.k = "Let"
       THEN /\ n.k = "Let"
            /\ \A i \in 1..Len(p.lbs) : some(p.lbs[i], n.lbs)
            /\ \A i \in 1..Len(p.ubs) : some(p.ubs[i], n.ubs)
       ELSE IF n.k = "Let" THEN some(p, n.lbs) \/ some(p, n.ubs)
       ELSE IF p.k # n.k THEN FALSE
       ELSE CASE p.k = "Func" ->
                    /\ all(p.pos, n.pos)
                    /\ all(TysOf(p.named), TysOf(n.named))
                    /\ all(p.rest, n.rest)
                    /\ Refines(p.ret, n.ret)
              [] p.k = "Tuple" -> all(p.elems, n.elems)
              [] p.k = "Array" -> Refines(p.elem, n.elem)
              [] p.k = "Dict" -> all(TysOf(p.fields), TysOf(n.fields))
              [] p.k = "With" -> Refines(p.callee, n.callee)
              [] OTHER -> FALSE

\* C9: the principal result of simplify shows no bound that the
\* non-principal result of the same type over the same table lacks at the
\* same position.
C9_PrincipalRefines ==
    (q.kind = "simplify" /\ q.out = "ok" /\ q.principal) =>
        LET against(r) == r.out = "ok" => Refines(q.res, r.ty)
        IN against(simplify(q.ty, FALSE, cano, info.vars))

Names(fields) == [i \in 1..Len(fields) |-> fields[i].name]

\* C10 as claimed: after a Dict D met an alias S in constrain, the field
\* names of the simplified D are among those of S's canonical shape.
C10_FieldsWithinAlias ==
    \A i \in 1..Len(info.alias) :
        LET within(r) == r.ty.k = "Dict"
                         /\ NamesOf(r.ty.fields) \subseteq
                                NamesOf(FLOW_DICT(info.alias[i].s).fields)
        IN within(simplify(info.alias[i].d, TRUE, cano, info.vars))

\* C10, amended: after a Dict D met an alias S in constrain, the simplified
\* D has D's field names unchanged, and the fields of D that received the
\* canonical field type at their span are exactly those named in S's
\* canonical shape.
C10_SharedFieldsCoerced ==
    \A i \in 1..Len(info.alias) :
        LET d == info.alias[i].d.fields
            canon == NamesOf(FLOW_DICT(info.alias[i].s).fields)
            same(r) == r.ty.k = "Dict" /\ Names(r.ty.fields) = Names(d)
        IN /\ same(simplify(info.alias[i].d, TRUE, cano, info.vars))
           /\ \A j \in 1..Len(d) :
                 (d[j].span \in DOMAIN info.mapping) <=> (d[j].name \in canon)

\* a dict with one field of the alias's canonical shape and one foreign
\* field has met the alias
C10_Witness ==
    \E i \in 1..Len(info.alias) :
        LET d == info.alias[i].d.fields
            canon == NamesOf(FLOW_DICT(info.alias[i].s).fields)
        IN /\ \E j \in 1..Len(d) : d[j].name \in canon
           /\ \E j \in 1..Len(d) : d[j].name \notin canon

(***************************************************************************)
(* HasClause(ty): Clause occurs in ty, at the top or inside.               *)
(***************************************************************************)
RECURSIVE HasClause(_)
HasClause(ty) ==
    LET any(tys) == \E i \in 1..Len(tys) : HasClause(tys[i])
    IN CASE ty.k = "Clause" -> TRUE
         [] ty.k = "Func" ->
                any(ty.pos) \/ any(TysOf(ty.named)) \/ any(ty.rest) \/ HasClause(ty.ret)
         [] ty.k = "Dict" -> any(TysOf(ty.fields))
         [] ty.k \in {"Tuple", "Union"} -> any(ty.elems)
         [] ty.k = "Array" -> HasClause(ty.elem)
         [] ty.k = "Args" -> any(ty.args) \/ any(TysOf(ty.named))
         [] ty.k = "With" ->
                HasClause(ty.callee) \/ \E i \in 1..Len(ty.applied) : HasClause(ty.applied[i])
         [] ty.k = "At" -> HasClause(ty.target)
         [] ty.k = "Unary" -> HasClause(ty.lhs)
         [] ty.k = "Binary" -> HasClause(ty.lhs) \/ HasClause(ty.rhs)
         [] ty.k = "If" -> any(<<ty.cond, ty.then, ty.else_>>)
         [] ty.k = "Let" -> any(ty.lbs) \/ any(ty.ubs)
         [] OTHER -> FALSE

\* C11: in every state of the walk no lower or upper bound of any variable
\* is Clause or contains Clause.
C11_NoClauseInBounds ==
    \A x \in DOMAIN info.vars :
        /\ \A i \in 1..Len(info.vars[x].lbs) : ~HasClause(info.vars[x].lbs[i])
        /\ \A i \in 1..Len(info.vars[x].ubs) : ~HasClause(info.vars[x].ubs[i])

\* a let-bound variable whose first lower bound is the tuple of an array
\* literal that had a spread child beside its one element
C11_Witness ==
    \E y \in DOMAIN info.vars :
        /\ info.vars[y].lbs # <<>>
        /\ info.vars[y].lbs[1].k = "Tuple" /\ Len(info.vars[y].lbs[1].elems) = 1
        /\ \E s \in DOMAIN info.mapping :
              s % SpanStride = 2 /\ info.mapping[s] = Var(y)

\* C12: when f is bound by let f(a, b: 2) = a + b and nothing else touched
\* a, b and f, the principal simplification of Var f is the Func with
\* positional [Any], named [(b, Value(2))], no rest and the Binary(+) of
\* Var a and Var b as return type.
C12_NamedDefaultSurvives ==
    (q.kind = "simplify" /\ q.out = "ok" /\ q.principal /\ q.ty.k = "Var") =>
        \A a, b \in DOMAIN info.vars :
            LET f == info.vars[q.ty.id]
                sum == Binary("+", Var(a), Var(b))
            IN (/\ f.lbs = <<Func(<<Var(a)>>, <<NamedTy("b", Var(b))>>, <<>>, sum)>>
                /\ f.ubs = <<>>
                /\ info.vars[a].lbs = <<Any>> /\ info.vars[a].ubs = <<>>
                /\ Len(info.vars[b].lbs) = 1 /\ info.vars[b].lbs[1].k = "Value"
                /\ info.vars[b].ubs = <<>>)
               => q.res = Func(<<Any>>, <<NamedTy("b", info.vars[b].lbs[1])>>, <<>>, sum)

\* a is b with some elements left out, the order kept
RECURSIVE IsSubseq(_, _)
IsSubseq(a, b) ==
    IF a = <<>> THEN TRUE
    ELSE IF b = <<>> THEN FALSE
    ELSE IF Head(a) = Head(b) THEN IsSubseq(Tail(a), Tail(b))
    ELSE IsSubseq(a, Tail(b))

\* C13: for every variable the values passed to ever_be and as_strong are
\* all in its lbs, in the order in which they were passed, and in every
\* step the values newly passed are at the end of the new lbs, after all
\* bounds the variable had before.
C13_EverBeInOrder ==
    [][\A v \in DOMAIN info'.passed :
          LET old == IF v \in DOMAIN info.passed THEN info.passed[v] ELSE <<>>
              new == info'.passed[v]
              had == IF v \in DOMAIN info.vars THEN Len(info.vars[v].lbs) ELSE 0
              lbs == info'.vars[v].lbs
          IN /\ IsSubseq(new, lbs)
             /\ IsSubseq(SubSeq(new, Len(old) + 1, Len(new)),
                         SubSeq(lbs, had + 1, Len(lbs)))]_vars

\* a variable bound twice whose lower bounds also hold a value that
\* constrain pushed between the two bindings
C13_Witness ==
    \E v \in DOMAIN info.passed :
        /\ Len(info.passed[v]) >= 2
        /\ Len(info.vars[v].lbs) > Len(info.passed[v])
        /\ info.vars[v].lbs[1] = info.passed[v][1]
        /\ info.vars[v].lbs[Len(info.vars[v].lbs)] = info.passed[v][Len(info.passed[v])]

\* C14: the walking thread never requests a write hold on a bound store on
\* which it has a read hold itself: no application is left waiting, and no
\* read hold outlives the statement that took it.
C14_NoWriteUnderOwnRead ==
    /\ ~info.stuck
    /\ info.held = {}

\* C15: after a simplify call on Var v has returned, the memo entry of v
\* holds the type the call returned; and when v's only bound is the tuple
\* of (x, x), both elements of the result are the same type.
C15_MemoHoldsResult ==
    (q.kind = "simplify" /\ q.out = "ok" /\ q.ty.k = "Var") =>
        LET key == <<q.ty.id, q.principal>>
            v == info.vars[q.ty.id]
        IN /\ key \in DOMAIN cano.cano_local_cache
           /\ cano.cano_local_cache[key] = q.res
           /\ \A x \in DOMAIN info.vars :
                 (v.lbs = <<Tuple(<<Var(x), Var(x)>>)>> /\ v.ubs = <<>>) =>
                     (q.res.k = "Tuple" /\ Len(q.res.elems) = 2
                      /\ q.res.elems[1] = q.res.elems[2])

\* C16: a variable that the analysis of a simplify call recorded both in
\* positives and in negatives is replaced, at its first visit of either
\* polarity, by Any only when it has no bounds; otherwise by the Let of all
\* its transformed bounds (a single lower bound standing for Let{[lb], []}
\* is accepted here as carrying all bounds too).
C16_BothPolaritiesKeepBounds ==
    (q.kind = "simplify" /\ q.out = "ok") =>
        \A v \in cano.positives \cap cano.negatives, pol \in BOOLEAN :
            LET fresh == [cano EXCEPT !.cano_local_cache = <<>>]
                entered == [cano EXCEPT !.cano_local_cache =
                                            Put(<<>>, <<v, q.principal>>, Any)]
                carries(w, r) ==
                    IF w.lbs = <<>> /\ w.ubs = <<>> THEN r = Any
                    ELSE \/ /\ r.k = "Let"
                            /\ Len(r.lbs) = Len(w.lbs) /\ Len(r.ubs) = Len(w.ubs)
                         \/ /\ Len(w.lbs) = 1 /\ w.ubs = <<>>
                            /\ r = transform(w.lbs[1], pol, entered, info.vars,
                                              q.principal).ty
            IN carries(info.vars[v],
                       transform(Var(v), pol, fresh, info.vars, q.principal).ty)

(***************************************************************************)
(* For types built of variables, tuples, dicts and values only:            *)
(* OnlyPositive(ty, pos, neg) says every variable reached from ty through  *)
(* lower bounds was recorded in pos and not in neg; Expected(ty) is ty     *)
(* with every variable replaced from its lower bounds alone.               *)
(***************************************************************************)
RECURSIVE OnlyPositive(_, _, _), Expected(_)
OnlyPositive(ty, pos, neg) ==
    LET all(tys) == \A i \in 1..Len(tys) : OnlyPositive(tys[i], pos, neg)
    IN CASE ty.k = "Var" ->
                ty.id \in pos /\ ty.id \notin neg /\ all(info.vars[ty.id].lbs)
         [] ty.k = "Tuple" -> all(ty.elems)
         [] ty.k = "Dict" -> all(TysOf(ty.fields))
         [] ty.k \in {"Value", "Any"} -> TRUE
         [] OTHER -> FALSE

Expected(ty) ==
    LET each(tys) == [i \in 1..Len(tys) |-> Expected(tys[i])]
        from(lbs) == IF Len(lbs) = 1 THEN Expected(lbs[1])
                     ELSE IF lbs = <<>> THEN Any
                     ELSE Let(each(lbs), <<>>)
    IN CASE ty.k = "Var" -> from(info.vars[ty.id].lbs)
         [] ty.k = "Tuple" -> Tuple(each(ty.elems))
         [] ty.k = "Dict" ->
                Dict([i \in 1..Len(ty.fields) |->
                         Field(ty.fields[i].name, Expected(ty.fields[i].ty),
                               ty.fields[i].span)])
         [] OTHER -> ty

\* C17: with principal=true, when every variable in the type asked about
\* occurs only positively, the result is the type with each variable
\* replaced by its one lower bound's transform, by Any when it has none and
\* by Let{lbs, []} otherwise.
C17_PositiveUsesLowerBounds ==
    (q.kind = "simplify" /\ q.out = "ok" /\ q.principal
        /\ OnlyPositive(q.ty, cano.positives, cano.negatives)) =>
        q.res = Expected(q.ty)

\* C18: when the type asked about is a variable whose only bound is a dict
\* with a variable as field value, the analysis of the simplify call has
\* recorded that field variable under the polarity transform visits a
\* field of a positively visited dict with: in negatives.
C18_DictFieldPolarity ==
    (q.kind = "simplify" /\ q.out = "ok" /\ q.ty.k = "Var") =>
        LET v == info.vars[q.ty.id]
        IN (Len(v.lbs) = 1 /\ v.ubs = <<>> /\ v.lbs[1].k = "Dict") =>
               \A i \in 1..Len(v.lbs[1].fields) :
                   v.lbs[1].fields[i].ty.k = "Var" =>
                       v.lbs[1].fields[i].ty.id \in cano.negatives

\* constrain(lhs, u1); ...; constrain(lhs, un), one call after the other
RECURSIVE InTurnRhs(_, _, _)
InTurnRhs(w, lhs, us) ==
    IF us = <<>> THEN w ELSE InTurnRhs(constrain(w, lhs, Head(us)), lhs, Tail(us))

\* constrain(u1, rhs); ...; constrain(un, rhs), one call after the other
RECURSIVE InTurnLhs(_, _, _)
InTurnLhs(w, us, rhs) ==
    IF us = <<>> THEN w ELSE InTurnLhs(constrain(w, Head(us), rhs), Tail(us), rhs)

SameEffect(a, b) == a.vars = b.vars /\ a.mapping = b.mapping

\* C19 as claimed: for every lhs, constrain(lhs, Union us) changes the
\* bounds and the mapping as the calls constrain(lhs, u) for u in us do in
\* turn, and for every rhs constrain(Union us, rhs) as the calls
\* constrain(u, rhs) do.
C19_DistributesOverUnion ==
    q.kind = "constrain" =>
        /\ q.peer.k = "Union" =>
               SameEffect(info, InTurnRhs(q.before[1], q.ty, q.peer.elems))
        /\ q.ty.k = "Union" =>
               SameEffect(info, InTurnLhs(q.before[1], q.ty.elems, q.peer))

\* C19, amended: the same, for a union on the right when lhs is neither a
\* variable nor a union, and for a union on the left when rhs is not a
\* variable.
C19_DistributesUnlessVar ==
    q.kind = "constrain" =>
        /\ (q.peer.k = "Union" /\ q.ty.k \notin {"Var", "Union"}) =>
               SameEffect(info, InTurnRhs(q.before[1], q.ty, q.peer.elems))
        /\ (q.ty.k = "Union" /\ q.peer.k # "Var") =>
               SameEffect(info, InTurnLhs(q.before[1], q.ty.elems, q.peer))

\* a literal met the union of two different variables: each of them has
\* received the literal as a lower bound
C19_Witness ==
    /\ q.kind = "constrain"
    /\ q.ty.k = "Value" /\ q.peer.k = "Union"
    /\ q.peer.elems[1].k = "Var" /\ q.peer.elems[2].k = "Var"
    /\ q.peer.elems[1] # q.peer.elems[2]
    /\ \A i \in 1..2 :
          LET x == q.peer.elems[i].id
          IN info.vars[x].lbs = Append(q.before[1].vars[x].lbs, q.ty)

\* C20: after constrain(Value(v, span), rhs) with a span that is not
\* detached and rhs neither a variable nor a union, the mapping has an entry
\* at span, which is rhs when there was none before; and the same for
\* constrain(lhs, Value(v, span)) with lhs as the entry.
C20_ValueBackfilled ==
    q.kind = "constrain" =>
        LET filled(s, ty) ==
                /\ s \in DOMAIN info.mapping
                /\ s \notin DOMAIN q.before[1].mapping => info.mapping[s] = ty
        IN /\ (q.ty.k = "Value" /\ q.ty.span # Detached
                   /\ q.peer.k \notin {"Var", "Union"}) => filled(q.ty.span, q.peer)
           /\ (q.peer.k = "Value" /\ q.peer.span # Detached
                   /\ q.ty.k \notin {"Var", "Union"}) => filled(q.peer.span, q.ty)

\* the fields of a dict whose names are in ns, in the dict's order
Shared(fields, ns) == SelectSeq(fields, LAMBDA f : f.name \in ns)

\* C21: constrain leaves every mapping entry that exists as it is; and
\* constrain(Dict a, Dict b) has the effect on bounds and mapping that it
\* has on the two dicts cut down to the names they share, no effect when
\* they share none, and for each shared name leaves an entry at either
\* field's span that is not detached, the peer field's type where the span
\* had no entry before.
C21_DictFieldsBackfilled ==
    q.kind = "constrain" =>
        LET b4 == q.before[1]
            stored(s, ty) ==
                s # Detached =>
                    /\ s \in DOMAIN info.mapping
                    /\ s \notin DOMAIN b4.mapping => info.mapping[s] = ty
        IN /\ \A s \in DOMAIN b4.mapping :
                 s \in DOMAIN info.mapping /\ info.mapping[s] = b4.mapping[s]
           /\ (q.ty.k = "Dict" /\ q.peer.k = "Dict") =>
                 LET a == q.ty.fields
                     b == q.peer.fields
                     ns == NamesOf(a) \cap NamesOf(b)
                 IN /\ SameEffect(info, constrain(b4, Dict(Shared(a, ns)),
                                                  Dict(Shared(b, ns))))
                    /\ ns = {} => SameEffect(info, b4)
                    /\ \A i \in 1..Len(a), j \in 1..Len(b) :
                          a[i].name = b[j].name =>
                              /\ stored(a[i].span, b[j].ty)
                              /\ stored(b[j].span, a[i].ty)

\* two dicts that share one name, each with a field of its own, have met:
\* the left field's span, which had no entry, holds the right field's type,
\* the right field's span keeps the entry it had, and the span of the field
\* only the right dict has holds nothing
C21_Witness ==
    /\ q.kind = "constrain"
    /\ q.ty.k = "Dict" /\ q.peer.k = "Dict"
    /\ \E i \in 1..Len(q.ty.fields), j \in 1..Len(q.peer.fields), k \in 1..Len(q.peer.fields) :
          LET fl == q.ty.fields[i]
              fr == q.peer.fields[j]
              own == q.peer.fields[k]
          IN /\ fl.name = fr.name
             /\ own.name \notin NamesOf(q.ty.fields)
             /\ fl.span \notin DOMAIN q.before[1].mapping
             /\ info.mapping[fl.span] = fr.ty
             /\ fr.span \in DOMAIN q.before[1].mapping
             /\ info.mapping[fr.span] = q.before[1].mapping[fr.span]
             /\ info.mapping[fr.span] # fl.ty
             /\ own.span \notin DOMAIN info.mapping

\* C22: constrain(Var v, rhs) with rhs not a variable appends rhs once to
\* v.ubs, constrain(lhs, Var w) with lhs not a variable appends lhs once to
\* w.lbs, constrain(Var v, Var w) changes no bound; in the three cases the
\* other bounds of the variable, the bounds of every other variable and the
\* mapping are what they were, and no variable is added.
C22_VarPostingLocal ==
    q.kind = "constrain" =>
        LET b4 == q.before[1]
            others(x) ==
                /\ DOMAIN info.vars = DOMAIN b4.vars
                /\ \A y \in DOMAIN info.vars \ {x} : info.vars[y] = b4.vars[y]
                /\ info.mapping = b4.mapping
        IN /\ (q.ty.k = "Var" /\ q.peer.k # "Var") =>
                 /\ info.vars[q.ty.id].ubs = Append(b4.vars[q.ty.id].ubs, q.peer)
                 /\ info.vars[q.ty.id].lbs = b4.vars[q.ty.id].lbs
                 /\ others(q.ty.id)
           /\ (q.peer.k = "Var" /\ q.ty.k # "Var") =>
                 /\ info.vars[q.peer.id].lbs = Append(b4.vars[q.peer.id].lbs, q.ty)
                 /\ info.vars[q.peer.id].ubs = b4.vars[q.peer.id].ubs
                 /\ others(q.peer.id)
           /\ (q.ty.k = "Var" /\ q.peer.k = "Var") =>
                 info.vars = b4.vars /\ info.mapping = b4.mapping

\* with two variables bound, one of them has met a literal whose span has
\* no entry: it has one upper bound more, the literal, and the span still
\* has no entry
C22_Witness ==
    /\ q.kind = "constrain"
    /\ q.ty.k = "Var" /\ q.peer.k = "Value"
    /\ q.peer.span # Detached
    /\ q.peer.span \notin DOMAIN info.mapping
    /\ Cardinality(DOMAIN info.vars) >= 2
    /\ Len(info.vars[q.ty.id].ubs) = Len(q.before[1].vars[q.ty.id].ubs) + 1

\* the children a Joiner ignores, and the children that are a variable
Ignored(ty) == ty.k \in {"Clause", "Undef", "Any", "Infer", "None", "FlowNone"}

\* join applied to the children in order, from the default Joiner
RECURSIVE JoinAll(_)
JoinAll(tys) ==
    IF tys = <<>> THEN Joiner
    ELSE join(JoinAll(SubSeq(tys, 1, Len(tys) - 1)), tys[Len(tys)])

\* the joined type of the children as the rules state it
Joined(tys) ==
    LET counted == SelectSeq(tys, LAMBDA t : ~Ignored(t))
        concrete == SelectSeq(counted, LAMBDA t : t.k # "Content")
    IN IF \E n \in 1..Len(tys) : tys[n].k = "Var" THEN Any
       ELSE IF counted = <<>> THEN None
       ELSE IF concrete = <<>> THEN Content
       ELSE IF Len(counted) = 1 THEN concrete[1]
       ELSE Undef

\* C23: finalize after the children fed so far is Any if one of them is a
\* variable, else None without a Content or concrete child, Content when
\* the counted children are all Content, the child when one concrete child
\* is all that counts, Undef otherwise; leaving out the Clause, Undef, Any,
\* Infer, None and FlowNone children gives the same result; and definite,
\* Undef after some child, is Undef after every later one.
C23_JoinerResult ==
    q.kind = "join" =>
        /\ finalize(q.joiner) = Joined(q.fed)
        /\ finalize(q.joiner)
               = finalize(JoinAll(SelectSeq(q.fed, LAMBDA t : ~Ignored(t))))
        /\ \A n \in 1..Len(q.fed) :
              JoinAll(SubSeq(q.fed, 1, n)).definite = Undef
                  => q.joiner.definite = Undef

\* a literal, then Content, then a variable have been fed: definite went
\* from the literal to Undef and the result is Any
C23_Witness ==
    /\ q.kind = "join"
    /\ Len(q.fed) = 3
    /\ q.fed[1].k = "Value" /\ q.fed[2].k = "Content" /\ q.fed[3].k = "Var"
    /\ q.joiner.definite = Undef
    /\ finalize(q.joiner) = Any

ControlExits == {"LoopBreak", "LoopContinue", "FuncReturn", "Break", "Continue", "Return"}

\* C24: when a child of a container is a break, continue or return, the
\* container's type is the type it has with the children up to that one:
\* no later child changes it.
C24_ControlExitPoisons ==
    (q.kind = "check" /\ q.node[1].kind = "Strong") =>
        \A n \in 1..Len(q.node[1].children) :
            q.node[1].children[n].kind \in ControlExits =>
                q.res = check(q.before[1],
                              [q.node[1] EXCEPT !.children = SubSeq(@, 1, n)]).ty

\* the mode a mode-bearing node sets for its children
ModeOf(kind) ==
    CASE kind = "Math" -> "Math"
      [] kind \in {"Code", "CodeBlock"} -> "Code"
      [] OTHER -> "Markup"

\* the identifiers below node, each with the mode of its nearest enclosing
\* mode-bearing ancestor; mode is the one in force at node
RECURSIVE InForce(_, _)
InForce(node, mode) ==
    IF node.kind \in {"Ident", "MathIdent"} THEN {<<node, mode>>}
    ELSE IF "children" \in DOMAIN node
    THEN UNION {InForce(node.children[n],
                        IF node.kind \in ModeKinds THEN ModeOf(node.kind) ELSE mode) :
                    n \in 1..Len(node.children)}
    ELSE {}

\* C25: TypeChecker::mode, when an identifier is checked, is the mode of
\* its nearest enclosing mode-bearing ancestor (Markup at the root) and is
\* Markup again when the child of the root has been checked; an identifier
\* the def-use resolver does not bind gets the value its name has in the
\* math scope if that mode is Math, the value it has in the global scope
\* otherwise, and Undef if the scope has none.
C25_ModeDecidesScope ==
    q.kind = "check" =>
        /\ info.mode = "Markup"
        /\ \A p \in InForce(q.node[1], "Markup") :
              LET e == info.seen[p[1].span]
                  v == resolve_global_value(p[1].glob, p[2] = "Math")
              IN /\ e.mode = p[2]
                 /\ e.ref = 0 =>
                       e.ty = IF v = <<>> THEN Undef ELSE Value(v[1], p[1].span)

\* C26: every identifier checked that the def-use resolver binds to a
\* definition was given Var(definition), and the mapping holds that Var at
\* the identifier's span.
C26_LocalIdentIsVar ==
    \A s \in DOMAIN info.seen :
        info.seen[s].ref # 0 =>
            /\ info.seen[s].ty = Var(info.seen[s].ref)
            /\ s \in DOMAIN info.mapping
            /\ info.mapping[s] = Var(info.seen[s].ref)

\* the kinds of rhs for which possible_ever_be posts
GroundIsh ==
    {"Undef", "Content", "None", "FlowNone", "Auto", "Element", "Builtin", "Value",
     "Boolean", "ValueDoc"}

\* a variable occurs in ty
RECURSIVE HasVar(_)
HasVar(ty) ==
    LET any(tys) == \E n \in 1..Len(tys) : HasVar(tys[n])
    IN CASE ty.k = "Var" -> TRUE
         [] ty.k \in {"Tuple", "Union"} -> any(ty.elems)
         [] ty.k = "Dict" -> any(TysOf(ty.fields))
         [] ty.k = "Array" -> HasVar(ty.elem)
         [] ty.k = "Func" -> any(ty.pos) \/ any(TysOf(ty.named)) \/ HasVar(ty.ret)
         [] OTHER -> FALSE

\* the bounds of the variables of w that b4 does not have yet
Added(w, b4) ==
    UNION {{w.vars[x].lbs[n] : n \in (Len(b4.vars[x].lbs) + 1)..Len(w.vars[x].lbs)}
           \cup {w.vars[x].ubs[n] : n \in (Len(b4.vars[x].ubs) + 1)..Len(w.vars[x].ubs)} :
               x \in DOMAIN b4.vars}

\* C27 as claimed: an assignment or equality whose right side is a
\* variable, a function, a dict or a tuple adds no bound, and no bound an
\* assignment or equality adds is or contains a variable.
C27_NoBoundFromNonGround ==
    (q.kind = "check" /\ q.node[1].kind = "Binary" /\ q.node[1].op \in {"=", "=="}) =>
        LET b4 == q.before[1]
            r == check(b4, q.node[1].rhs).ty
        IN /\ r.k \in {"Var", "Func", "Dict", "Tuple"} => info.vars = b4.vars
           /\ \A b \in Added(info, b4) : ~HasVar(b)

\* C27, amended: an assignment whose right side is not ground-ish adds no
\* bound, and neither does an equality with no ground-ish side; an equality
\* with a ground-ish left side and a variable on the right adds the left
\* side as a lower bound of that variable; and no bound an assignment or
\* equality adds is or contains a variable.
C27_GroundSideOnly ==
    (q.kind = "check" /\ q.node[1].kind = "Binary" /\ q.node[1].op \in {"=", "=="}) =>
        LET b4 == q.before[1]
            l == check(b4, q.node[1].lhs).ty
            r == check(b4, q.node[1].rhs).ty
        IN /\ (q.node[1].op = "=" /\ r.k \notin GroundIsh) => info.vars = b4.vars
           /\ (r.k \notin GroundIsh /\ l.k \notin GroundIsh) => info.vars = b4.vars
           /\ (q.node[1].op = "==" /\ l.k \in GroundIsh /\ r.k = "Var") =>
                 info.vars = [b4.vars EXCEPT ![r.id].lbs = Append(@, l)]
           /\ (r.k \in GroundIsh /\ l.k = "Var") =>
                 info.vars = [b4.vars EXCEPT ![l.id].lbs = Append(@, r)]
           /\ \A b \in Added(info, b4) : ~HasVar(b)

\* 2 == x has been checked for a variable with one bound: x has the
\* literal as its second lower bound
C27_Witness ==
    /\ q.kind = "check" /\ q.node[1].kind = "Binary"
    /\ q.node[1].op = "=="
    /\ q.node[1].lhs.kind = "Int" /\ q.node[1].rhs.kind = "Ident"
    /\ Len(info.vars[q.node[1].rhs.ref].lbs) = 2
    /\ info.vars[q.node[1].rhs.ref].lbs[2] = q.res.lhs

\* the elements of a sequence
Range(seq) == {seq[n] : n \in 1..Len(seq)}

\* C30: for two records with unique field names, the pairs
\* intersect_keys_enumerate(a, b) yields are the (i, j) with the i-th
\* field of a and the j-th field of b of the same name, each once, whichever
\* record is the longer one; the pairs of intersect_keys_enumerate(b, a)
\* are these with the two indices exchanged.
C30_IntersectPairs ==
    (q.kind = "constrain" /\ q.ty.k = "Dict" /\ q.peer.k = "Dict") =>
        LET a == q.ty.fields
            b == q.peer.fields
            ps == intersect_keys_enumerate(a, b)
        IN /\ Range(ps) = {p \in (1..Len(a)) \X (1..Len(b)) : a[p[1]].name = b[p[2]].name}
           /\ Len(ps) = Cardinality(NamesOf(a) \cap NamesOf(b))
           /\ Range(intersect_keys_enumerate(b, a)) = {<<p[2], p[1]>> : p \in Range(ps)}

\* a dict of one field has met a dict of two whose second field has the
\* same name: the pair is (1, 2), and the field's span got the type of the
\* second field of the longer dict
C30_Witness ==
    /\ q.kind = "constrain" /\ q.ty.k = "Dict" /\ q.peer.k = "Dict"
    /\ Len(q.ty.fields) < Len(q.peer.fields)
    /\ intersect_keys_enumerate(q.ty.fields, q.peer.fields) = << <<1, 2>> >>
    /\ info.mapping[q.ty.fields[1].span] = q.peer.fields[2].ty


\* C28: within one request, every positional parameter that param_completions
\* puts to type_completion and whose infer_type has no completion of its own
\* (absent, Clause, Undef, Content, Any, Infer, FlowNone) gets None from
\* type_completion and has its input handed to cast_completions, whatever
\* parameters were handled before it
C28_CastFallbackIndependent ==
    q.kind = "param_completions" =>
        \A i \in 1..Len(q.ctx[1].asked) :
           LET a == q.ctx[1].asked[i]
           IN (a.infer_type = <<>> \/ a.infer_type[1] \in {Clause, Undef, Content, Any,
                                                           Infer, FlowNone})
                 => a.ret = "None" /\ a.cast

\* C29: after sort_and_explicit_code_completion every completion has a
\* sort_text, the sort_texts grow strictly as strings along the intended rank
\* (paths, then the completions collected before the call in label order,
\* then those of complete_code in label order), and explicit is what it was
C29_SortTextRanks ==
    (q.kind \in {"param_completions", "named_param_value_completions"}
        /\ q.ctx[1].sorted) =>
        LET c == q.ctx[1]
            n == Len(c.completions)
            ranked == c.completions2 \o SubSeq(c.completions, c.ncode + 1, n)
                          \o SubSeq(c.completions, 1, c.ncode)
        IN /\ c.explicit = c.explicit0
           /\ \A i \in 1..Len(ranked) : ranked[i].sort_text # <<>>
           /\ \A i \in 1..(Len(ranked) - 1) :
                 str_lt(ranked[i].sort_text[1], ranked[i + 1].sort_text[1])
           /\ \A i \in 1..(n - 1) :
                 i # c.ncode => ~str_lt(c.completions[i + 1].label, c.completions[i].label)

=========================================================================
